---- MODULE Spec2Model ----
(***************************************************************************)
(* Hot air gun station (hot_air_gun_station_V1.0.ino): the configuration   *)
(* store in EEPROM (classes CONFIG and HOTGUN_CFG), the hot air gun        *)
(* controller (classes PID, HISTORY and HOTGUN), the zero-cross interrupt  *)
(* handler and the main loop.                                              *)
(*                                                                         *)
(* Objects are records whose fields carry the names of the C++ members.    *)
(* A C++ method is an operator from the object (and its arguments) to the  *)
(* object after the call; the actions apply these operators.               *)
(***************************************************************************)
EXTENDS Integers, Sequences, FiniteSets, TLC

(***************************************************************************)
(* Bounds of the model.                                                    *)
(***************************************************************************)
\* Number of record slots of the EEPROM (EEPROM.length() / record_size).
Slots == 3
\* Completed and torn saves in one behaviour of the store.
MaxSaves == 5
\* Losses of power during a save in one behaviour of the store.
MaxTorn == 1
\* Saves in one behaviour of the store whose cells decay.
MaxDecaySaves == 2
\* Saves in one behaviour of the HOTGUN_CFG interface.
MaxCfgSaves == 2

\* The calls of keepTemp a behaviour makes.
MaxKeep == 2

\* The calls of keepTemp the main loop makes.
MaxCycles == 2

\* The milliseconds one step of the clock adds.
TimeStep == 1000

\* The calls of PID::reqPower after one PID::resetPID.
MaxPidCalls == 2

\* millis() runs up to this value, in steps of ClockStep ms.
MaxNow == 2000

ClockStep == 500

(***************************************************************************)
(* Program constants.                                                      *)
(***************************************************************************)
cfg_size == 8
record_size == 16
id_size == 4
def_temp == 600
def_fan == 64
min_temp == 50
max_temp == 900
erased_byte == 255
H_LENGTH == 16
Kp == 638
Ki == 196
Kd == 1
denominator_p == 11
period == 100
min_fan_speed == 30
temp_gun_cold == 80

W8 == 256
W16 == 65536
\* TLC's integers end at 2^31 - 1: the record IDs of the model stay below it,
\* and this number stands for the 0xffffffff that CONFIG::init starts
\* minRecID with.
maxID == 2147483647

\* EEPROM.length(): the region holds Slots records.
eLength == Slots * record_size

def_tip == <<587, 751, 850>>

\* The Celsius range of the preset and the three reference temperatures.
temp_minC == 150
temp_maxC == 500
temp_tip == <<200, 300, 400>>
\* The raw reading and the Celsius value of the ambient temperature.
ambient_temp == 0
ambient_tempC == 25
\* The steps of the downward search in tempInternal.
SearchSteps == 10

(***************************************************************************)
(* Bytes, little-endian layout of struct cfg, the checksum.                *)
(***************************************************************************)
RECURSIVE Pow(_, _)
Pow(b, n) == IF n = 0 THEN 1 ELSE b * Pow(b, n - 1)

\* Byte i (0 = least significant) of the unsigned number n.
ByteOf(n, i) == (n \div Pow(W8, i)) % W8

\* The unsigned number whose little-endian bytes are the sequence s.
RECURSIVE FromBytes(_)
FromBytes(s) ==
    IF s = <<>> THEN 0 ELSE Head(s) + W8 * FromBytes(Tail(s))

\* Bit packing of the three calibration references, 10 bits each, low first.
PackTip(t) == ((t[3] % 1024) * 1024 + (t[2] % 1024)) * 1024 + (t[1] % 1024)

\* struct cfg as the 8 bytes the AVR keeps in memory (little-endian):
\* calibration (4 bytes), temp (2 bytes), fan, off_timeout.  Config is kept
\* as these bytes; the operators below read and write its fields.
CfgBytes(c) ==
    << ByteOf(c.calibration, 0), ByteOf(c.calibration, 1),
       ByteOf(c.calibration, 2), ByteOf(c.calibration, 3),
       ByteOf(c.temp, 0), ByteOf(c.temp, 1), c.fan, c.off_timeout >>

\* Config.temp and Config.fan.
CfgTemp(b) == FromBytes(SubSeq(b, 5, 6))
CfgFan(b) == b[7]

\* The low 30 bits of Config.calibration.
CfgCalibration30(b) == FromBytes(<<b[1], b[2], b[3], b[4] % 64>>)

\* Config.calibration = cd; Config.temp = t; Config.fan = f.
CfgWith(b, cd, t, f) ==
    << ByteOf(cd, 0), ByteOf(cd, 1), ByteOf(cd, 2), ByteOf(cd, 3),
       ByteOf(t, 0), ByteOf(t, 1), f, b[8] >>

\* summ <<= 2; summ += byte, in a uint8_t, over the bytes of s.
RECURSIVE SummOf(_, _)
SummOf(summ, s) ==
    IF s = <<>> THEN summ
    ELSE SummOf((((summ * 4) % W8) + Head(s)) % W8, Tail(s))

\* The checksum byte of ID bytes followed by payload bytes (summ ++ at the end).
CheckSumm(s) == (SummOf(0, s) + 1) % W8

(***************************************************************************)
(* The EEPROM: eLength cells.  The AVR address register has as many bits   *)
(* as the EEPROM has cells, so an address past the end selects the cell    *)
(* address modulo the length.                                              *)
(***************************************************************************)
Cell(addr) == addr % eLength

EepromRead(ee, addr) == ee[Cell(addr)]

EepromWrite(ee, addr, b) == [ee EXCEPT ![Cell(addr)] = b]

\* The cells after the first k writes of the sequence ws of <<address, byte>>.
RECURSIVE WriteAll(_, _, _)
WriteAll(ee, ws, k) ==
    IF k = 0 \/ ws = <<>> THEN ee
    ELSE WriteAll(EepromWrite(ee, Head(ws)[1], Head(ws)[2]), Tail(ws), k - 1)

(***************************************************************************)
(* class CONFIG and class HOTGUN_CFG.  The object is a record with the     *)
(* members can_write, rAddr, wAddr, nextRecID, Config and t_tip.           *)
(***************************************************************************)
\* The object as the C++ runtime builds it (a global: zero-initialised).
ConfigNew ==
    [ can_write |-> FALSE, rAddr |-> 0, wAddr |-> 0, nextRecID |-> 0,
      Config    |-> <<0, 0, 0, 0, 0, 0, 0, 0>>,
      t_tip     |-> <<0, 0, 0>> ]

\* The record_size bytes at addr, as Buff[1..record_size].
ReadBuff(ee, addr) == [i \in 1..record_size |-> EepromRead(ee, addr + i - 1)]

\* CONFIG::readRecord on the bytes read: whether the checksum matches, the
\* ID and the payload (both read by the callers only when it matches).
RecordOf(Buff) ==
    [ ok     |-> CheckSumm(SubSeq(Buff, 1, cfg_size + id_size)) = Buff[record_size],
      recID  |-> IF CheckSumm(SubSeq(Buff, 1, cfg_size + id_size)) = Buff[record_size]
                 THEN FromBytes(SubSeq(Buff, 1, id_size)) ELSE 0,
      Config |-> SubSeq(Buff, id_size + 1, id_size + cfg_size) ]

\* CONFIG::readRecord.
readRecord(ee, addr) == RecordOf(ReadBuff(ee, addr))

\* The body of the for loop of CONFIG::init for the valid record r at addr:
\* the loop's locals and Config after it.
ScanStep(s, addr, r) ==
    [ records    |-> (s.records + 1) % W8,
      minRecID   |-> IF s.minRecID > r.recID THEN r.recID ELSE s.minRecID,
      minRecAddr |-> IF s.minRecID > r.recID THEN addr ELSE s.minRecAddr,
      maxRecID   |-> IF s.maxRecID < r.recID THEN r.recID ELSE s.maxRecID,
      maxRecAddr |-> IF s.maxRecID < r.recID THEN addr ELSE s.maxRecAddr,
      Config     |-> r.Config ]

\* The for loop of CONFIG::init from address addr on; it stops at the first
\* slot that does not decode.
RECURSIVE ScanRecords(_, _, _)
ScanRecords(ee, addr, s) ==
    IF addr >= eLength THEN s
    ELSE IF ~readRecord(ee, addr).ok THEN s
    ELSE ScanRecords(ee, addr + record_size, ScanStep(s, addr, readRecord(ee, addr)))

\* Where CONFIG::init puts the write address when the EEPROM is not full.
AfterRecord(rAddr) ==
    IF rAddr + record_size > eLength THEN 0 ELSE rAddr + record_size

\* CONFIG::init after its for loop, which left s.
ConfigInitFrom(c, s) ==
    IF s.records = 0
    THEN [c EXCEPT !.nextRecID = 0, !.wAddr = 0, !.rAddr = 0,
                   !.can_write = TRUE, !.Config = s.Config]
    ELSE [c EXCEPT !.nextRecID = 0,
                   !.Config = s.Config,
                   !.rAddr = s.maxRecAddr,
                   !.wAddr = IF s.records < eLength \div record_size
                             THEN AfterRecord(s.maxRecAddr)
                             ELSE s.minRecAddr,
                   !.can_write = TRUE]

\* CONFIG::init.
ConfigInit(c, ee) ==
    ConfigInitFrom(c, ScanRecords(ee, 0,
        [ records |-> 0, minRecID |-> maxID, minRecAddr |-> 0,
          maxRecID |-> 0, maxRecAddr |-> 0, Config |-> c.Config ]))

\* CONFIG::load given the record r read at rAddr: the object after the call,
\* and the value returned.
ConfigLoadFrom(c, r) ==
    [ obj |-> IF r.ok
              THEN [c EXCEPT !.nextRecID = r.recID + 1, !.Config = r.Config]
              ELSE [c EXCEPT !.nextRecID = c.nextRecID + 1],
      is_valid |-> r.ok ]

\* CONFIG::load.
ConfigLoad(c, ee) == ConfigLoadFrom(c, readRecord(ee, c.rAddr))

\* The ID CONFIG::save writes.
SaveID(c) == IF c.nextRecID = 0 THEN 1 ELSE c.nextRecID

\* The bytes CONFIG::save writes for the ID nxt: 4 ID bytes, the payload.
SaveBytes(c, nxt) == [i \in 1..id_size |-> ByteOf(nxt, i - 1)] \o c.Config

\* WritesOf with the checksum byte put right after the payload.
WritesOfChecksumAfterPayload(wAddr, bytes) ==
    [i \in 1..Len(bytes) |-> <<wAddr + i - 1, bytes[i]>>]
    \o << <<wAddr + Len(bytes), CheckSumm(bytes)>> >>

\* The EEPROM.write calls of CONFIG::save in program order: the ID bytes and
\* the payload bytes from wAddr on, the checksum byte in the last cell.
WritesOf(wAddr, bytes) ==
    [i \in 1..Len(bytes) |-> <<wAddr + i - 1, bytes[i]>>]
    \o << <<wAddr + record_size - 1, CheckSumm(bytes)>> >>

SaveWrites(c) == WritesOf(c.wAddr, SaveBytes(c, SaveID(c)))

\* Where the write address moves after a record was written.
NextWriteAddr(wAddr) ==
    IF wAddr + record_size > eLength THEN 0 ELSE wAddr + record_size

\* CONFIG::save: the object and the EEPROM after the call.
ConfigSave(c, ee) ==
    IF ~c.can_write THEN [obj |-> c, ee |-> ee]
    ELSE [ obj |-> [c EXCEPT !.rAddr = c.wAddr,
                             !.wAddr = NextWriteAddr(c.wAddr),
                             !.nextRecID = SaveID(c) + 1],
           ee  |-> WriteAll(ee, SaveWrites(c), Len(SaveWrites(c))) ]

\* CONFIG::updateConfig.
updateConfig(c, Cfg) == [c EXCEPT !.Config = Cfg]

\* HOTGUN_CFG::setDefaults(false).
setDefaults(c) ==
    [c EXCEPT !.Config = CfgWith(c.Config, PackTip(def_tip), def_temp, def_fan)]

\* The three 10-bit fields of the packed calibration.
UnpackTip(cd) ==
    << cd % 1024, (cd \div 1024) % 1024, (cd \div (1024 * 1024)) % 1024 >>

\* InstallTip without the setDefaults(false) of line 226: the references
\* fall back to def_tip, the preset and the fan speed stay as loaded.
InstallTipKeepsPreset(c, t) ==
    IF t[1] >= t[2] \/ t[2] >= t[3]
    THEN [c EXCEPT !.t_tip = def_tip]
    ELSE [c EXCEPT !.t_tip = t]

\* The end of HOTGUN_CFG::init: unpack the calibration t, check its order.
InstallTip(c, t) ==
    IF t[1] >= t[2] \/ t[2] >= t[3]
    THEN [setDefaults(c) EXCEPT !.t_tip = def_tip]
    ELSE [c EXCEPT !.t_tip = t]

\* HOTGUN_CFG::init after CONFIG::init and CONFIG::load, which gave l.
HotgunCfgInitFrom(l) ==
    IF l.is_valid
    THEN [ obj |-> InstallTip(l.obj, UnpackTip(CfgCalibration30(l.obj.Config))),
           is_valid |-> TRUE ]
    ELSE [ obj |-> InstallTip(setDefaults(l.obj), def_tip), is_valid |-> FALSE ]

\* HOTGUN_CFG::init: the object and whether CONFIG::load succeeded.
HotgunCfgInit(c, ee) == HotgunCfgInitFrom(ConfigLoad(ConfigInit(c, ee), ee))

\* The bitwise or of two naturals.
RECURSIVE BitOr(_, _)
BitOr(a, b) ==
    IF a = 0 THEN b
    ELSE IF b = 0 THEN a
    ELSE 2 * BitOr(a \div 2, b \div 2) + (IF a % 2 = 1 \/ b % 2 = 1 THEN 1 ELSE 0)

\* constrain(x, lo, hi).
constrain(x, lo, hi) == IF x < lo THEN lo ELSE IF x > hi THEN hi ELSE x

\* HOTGUN_CFG::applyCalibrationData (tip[0] < ambient_temp is never true of
\* an unsigned tip[0] and ambient_temp = 0).
applyCalibrationData(c, tip) ==
    [c EXCEPT !.t_tip = <<tip[1], tip[2],
                          IF tip[3] > max_temp THEN max_temp ELSE tip[3]>>]

\* The word HOTGUN_CFG::saveCalibrationData packs: tip[0] is not masked.
PackSaved(tip) ==
    BitOr(((tip[3] % 1024) * 1024 + (tip[2] % 1024)) * 1024, tip[1])

\* HOTGUN_CFG::saveCalibrationData: t_tip[2] is assigned twice, t_tip[1]
\* is left as it was.
saveCalibrationData(c, tip) ==
    [c EXCEPT !.Config = CfgWith(c.Config,
                             PackSaved(<<tip[1], tip[2], constrain(tip[3], 0, max_temp)>>),
                             CfgTemp(c.Config), CfgFan(c.Config)),
              !.t_tip = <<tip[1], c.t_tip[2], constrain(tip[3], 0, max_temp)>>]

\* HOTGUN_CFG::save: the object and the EEPROM after the call.
HotgunCfgSave(c, ee, t, fanSpeed) ==
    ConfigSave([c EXCEPT !.Config =
                    << @[1], @[2], @[3], @[4],
                       ByteOf(constrain(t, min_temp, max_temp), 0),
                       ByteOf(constrain(t, min_temp, max_temp), 1),
                       fanSpeed, @[8] >>], ee)

\* HOTGUN_CFG::setDefaults(Write): the object and the EEPROM after the call.
setDefaultsWrite(c, ee, Write) ==
    IF Write THEN ConfigSave(setDefaults(c), ee)
    ELSE [obj |-> setDefaults(c), ee |-> ee]

\* The quotient of C's integer division, which truncates toward zero.
TruncDiv(a, b) ==
    IF (a >= 0) = (b > 0)
    THEN (IF a >= 0 THEN a ELSE -a) \div (IF b > 0 THEN b ELSE -b)
    ELSE -((IF a >= 0 THEN a ELSE -a) \div (IF b > 0 THEN b ELSE -b))

\* Arduino's map(), in long arithmetic (in_min # in_max).
map(x, in_min, in_max, out_min, out_max) ==
    TruncDiv((x - in_min) * (out_max - out_min), in_max - in_min) + out_min

\* The Celsius value below which the gun is cold.
cold_tempC == 50

\* isCold with a limit of 60 Celsius.
isColdBelowSixty(c, t) ==
    /\ t < c.t_tip[1]
    /\ map(t, ambient_temp, c.t_tip[1], ambient_tempC, temp_tip[1])
           < cold_tempC + 10

\* HOTGUN_CFG::isCold: && evaluates map() only below t_tip[0].
isCold(c, t) ==
    /\ t < c.t_tip[1]
    /\ map(t, ambient_temp, c.t_tip[1], ambient_tempC, temp_tip[1]) < cold_tempC

\* tempHuman reading every temperature from t_tip[0] up on the lower
\* segment of the calibration.
tempHumanOneSegment(c, t) ==
    IF t <= ambient_temp THEN ambient_tempC
    ELSE IF t < c.t_tip[1]
    THEN map(t, ambient_temp, c.t_tip[1], ambient_tempC, temp_tip[1]) % W16
    ELSE map(t, c.t_tip[1], c.t_tip[2], temp_tip[1], temp_tip[2]) % W16

\* HOTGUN_CFG::tempHuman: the Celsius value of the raw reading t.
tempHuman(c, t) ==
    IF t <= ambient_temp THEN ambient_tempC
    ELSE IF t < c.t_tip[1]
    THEN map(t, ambient_temp, c.t_tip[1], ambient_tempC, temp_tip[1]) % W16
    ELSE IF t >= c.t_tip[2]
    THEN map(t, c.t_tip[2], c.t_tip[3], temp_tip[2], temp_tip[3]) % W16
    ELSE map(t, c.t_tip[1], c.t_tip[2], temp_tip[1], temp_tip[2]) % W16

\* The loop of tempInternal: step down while the reading is above t.
RECURSIVE SearchDown(_, _, _, _)
SearchDown(c, raw, t, i) ==
    IF i = SearchSteps \/ tempHuman(c, raw) <= t THEN raw
    ELSE SearchDown(c, (raw - 1) % W16, t, i + 1)

\* The first estimate of tempInternal for the constrained Celsius value t.
FirstEstimate(c, t) ==
    IF t >= temp_tip[2]
    THEN map(t + 1, temp_tip[2], temp_tip[3], c.t_tip[2], c.t_tip[3]) % W16
    ELSE map(t + 1, temp_tip[1], temp_tip[2], c.t_tip[1], c.t_tip[2]) % W16

\* HOTGUN_CFG::tempInternal: the raw value of the Celsius temperature t.
tempInternal(c, t) ==
    SearchDown(c, FirstEstimate(c, constrain(t, temp_minC, temp_maxC)),
               constrain(t, temp_minC, temp_maxC), 0)

(***************************************************************************)
(* class HISTORY: queue holds the len elements stored, index is the ring   *)
(* position the next put overwrites once the queue is full.                *)
(***************************************************************************)
HistoryNew == [queue |-> <<>>, len |-> 0, index |-> 0]

\* HISTORY::put without ++index: a full queue takes every new item in the
\* same place.
HistoryPutKeepsIndex(q, item) ==
    IF q.len < H_LENGTH
    THEN [q EXCEPT !.queue = Append(q.queue, item), !.len = q.len + 1]
    ELSE [q EXCEPT !.queue[q.index + 1] = item]

\* HISTORY::put.
HistoryPut(q, item) ==
    IF q.len < H_LENGTH
    THEN [q EXCEPT !.queue = Append(q.queue, item), !.len = q.len + 1]
    ELSE [q EXCEPT !.queue[q.index + 1] = item,
                   !.index = IF q.index + 1 >= H_LENGTH THEN 0 ELSE q.index + 1]

\* HISTORY::last without the test of index: the item at len - 1.
HistoryLastByLen(q) ==
    IF q.len = 0 THEN 0 ELSE q.queue[q.len]

\* HISTORY::last.
HistoryLast(q) ==
    IF q.len = 0 THEN 0
    ELSE IF q.index # 0 THEN q.queue[q.index] ELSE q.queue[q.len]

\* The sum of the numbers of a sequence.
RECURSIVE SumSeq(_)
SumSeq(q) == IF q = <<>> THEN 0 ELSE Head(q) + SumSeq(Tail(q))

\* HISTORY::average without sum += len >> 1: the quotient is cut.
averageTruncating(q) ==
    IF q.len = 0 THEN 0
    ELSE IF q.len = 1 THEN q.queue[1]
    ELSE (SumSeq(q.queue) \div q.len) % W16

\* HISTORY::average.
average(q) ==
    IF q.len = 0 THEN 0
    ELSE IF q.len = 1 THEN q.queue[1]
    ELSE ((SumSeq(q.queue) + q.len \div 2) \div q.len) % W16

\* The squares of the distances of the items of a sequence from avg.
RECURSIVE SumSquares(_, _)
SumSquares(q, avg) ==
    IF q = <<>> THEN 0
    ELSE (Head(q) - avg) * (Head(q) - avg) + SumSquares(Tail(q), avg)

\* HISTORY::dispersion: the float returned is num / den.
dispersion(q) ==
    IF q.len < 3 THEN [num |-> 1000, den |-> 1]
    ELSE [num |-> SumSquares(q.queue, average(q)) + q.len * 2, den |-> q.len]

(***************************************************************************)
(* class PID (its members are fields of the HOTGUN object, which inherits  *)
(* them; PID::power is the field pid_power, HOTGUN::power the field power).*)
(***************************************************************************)
\* PID::resetPID(temp).
resetPID(h, temp) ==
    [h EXCEPT !.temp_h0 = 0, !.pid_power = 0, !.i_summ = 0,
              !.pid_iterate = FALSE,
              !.temp_h1 = IF temp > 0 /\ temp < 1000 THEN temp ELSE 0]

\* PID::reqPower without the half of the denominator added before the
\* shift: the power is cut, not rounded.
reqPowerTruncating(h, t_set, t_curr) ==
    LET diff  == t_set - t_curr
        flip  == h.temp_h0 = 0 /\ diff < 30 /\ ~h.pid_iterate
        iter  == IF flip THEN TRUE ELSE h.pid_iterate
        summ  == IF h.temp_h0 = 0
                 THEN (IF flip THEN 0 ELSE h.i_summ) + diff
                 ELSE h.i_summ
        pw    == IF h.temp_h0 = 0
                 THEN Kp * diff + Ki * summ
                 ELSE h.pid_power
                      + Kp * (h.temp_h1 - t_curr) + Ki * diff
                      + Kd * (h.temp_h0 + t_curr - 2 * h.temp_h1)
    IN  [ obj |-> [h EXCEPT !.pid_iterate = iter, !.i_summ = summ,
                            !.pid_power = pw,
                            !.temp_h0 = IF iter THEN h.temp_h1 ELSE h.temp_h0,
                            !.temp_h1 = t_curr],
          pwr |-> pw \div Pow(2, denominator_p) ]

\* PID::reqPower: the object after the call and the value returned.
reqPower(h, t_set, t_curr) ==
    LET diff  == t_set - t_curr
        flip  == h.temp_h0 = 0 /\ diff < 30 /\ ~h.pid_iterate
        iter  == IF flip THEN TRUE ELSE h.pid_iterate
        summ  == IF h.temp_h0 = 0
                 THEN (IF flip THEN 0 ELSE h.i_summ) + diff
                 ELSE h.i_summ
        pw    == IF h.temp_h0 = 0
                 THEN Kp * diff + Ki * summ
                 ELSE h.pid_power
                      + Kp * (h.temp_h1 - t_curr) + Ki * diff
                      + Kd * (h.temp_h0 + t_curr - 2 * h.temp_h1)
    IN  [ obj |-> [h EXCEPT !.pid_iterate = iter, !.i_summ = summ,
                            !.pid_power = pw,
                            !.temp_h0 = IF iter THEN h.temp_h1 ELSE h.temp_h0,
                            !.temp_h1 = t_curr],
          pwr |-> (pw + Pow(2, denominator_p - 1)) \div Pow(2, denominator_p) ]

(***************************************************************************)
(* class HOTGUN.  gun_pin is the level of the heater pin, duty the value   *)
(* last given to the fan PWM (OCR1A).                                      *)
(***************************************************************************)
\* The object after HOTGUN::init and setup's setTemp and setFanSpeed.
HotgunNew ==
    [ cnt |-> 0, actual_power |-> 0, active |-> FALSE, gun_pin |-> FALSE,
      on |-> FALSE, fan |-> FALSE, fix_power |-> FALSE, chill |-> FALSE,
      temp_set |-> def_temp, fan_speed |-> def_fan, duty |-> 0, power |-> 0,
      temp_h0 |-> 0, temp_h1 |-> 0, pid_iterate |-> FALSE, i_summ |-> 0,
      pid_power |-> 0, h_temp |-> HistoryNew, h_power |-> HistoryNew ]

\* syncCB with the heater switched off only in the tick whose number is the
\* power, not in every tick from that one on.
syncCBOffAtEqual(h) ==
    LET c == (h.cnt + 1) % W8
    IN  IF c >= period
        THEN [ obj |-> IF ~h.active /\ h.actual_power > 0
                       THEN [h EXCEPT !.cnt = 0, !.gun_pin = TRUE, !.active = TRUE]
                       ELSE [h EXCEPT !.cnt = 0],
               end |-> TRUE ]
        ELSE [ obj |-> IF c = h.actual_power /\ h.active
                       THEN [h EXCEPT !.cnt = c, !.gun_pin = FALSE, !.active = FALSE]
                       ELSE [h EXCEPT !.cnt = c],
               end |-> FALSE ]

\* HOTGUN::syncCB: the object after the call, and the value returned.
syncCB(h) ==
    LET c == (h.cnt + 1) % W8
    IN  IF c >= period
        THEN [ obj |-> IF ~h.active /\ h.actual_power > 0
                       THEN [h EXCEPT !.cnt = 0, !.gun_pin = TRUE, !.active = TRUE]
                       ELSE [h EXCEPT !.cnt = 0],
               end |-> TRUE ]
        ELSE [ obj |-> IF c >= h.actual_power /\ h.active
                       THEN [h EXCEPT !.cnt = c, !.gun_pin = FALSE, !.active = FALSE]
                       ELSE [h EXCEPT !.cnt = c],
               end |-> FALSE ]

\* HOTGUN::switchPower(false), first part: on = On; digitalWrite(gun_pin, LOW).
switchOffPin(h) == [h EXCEPT !.on = FALSE, !.gun_pin = FALSE]

\* HOTGUN::switchPower(false), second part: actual_power = 0.
switchOffPower(h) == [h EXCEPT !.actual_power = 0]

\* switchPower(true) without the test of lines 799-800: the fan is started at
\* whatever speed was set.
switchOnAnySpeed(h) ==
    [h EXCEPT !.on = TRUE, !.duty = h.fan_speed, !.fan = TRUE]

\* HOTGUN::switchPower(true).
switchOn(h) ==
    LET fs == IF h.fan_speed < min_fan_speed THEN min_fan_speed ELSE h.fan_speed
    IN  [h EXCEPT !.on = TRUE, !.fan_speed = fs, !.duty = fs, !.fan = TRUE]

\* HOTGUN::switchPower.
switchPower(h, On) == IF On THEN switchOn(h) ELSE switchOffPower(switchOffPin(h))

\* HOTGUN::fixPower.
fixPower(h, Power) ==
    IF Power = 0
    THEN [h EXCEPT !.fix_power = FALSE, !.actual_power = 0]
    ELSE LET p == IF Power > period THEN period ELSE Power
         IN  [h EXCEPT !.power = p, !.actual_power = p, !.fix_power = TRUE]

\* millis() - last_period < period * 10 in uint32_t arithmetic, for values
\* below 2^31: a last_period above millis() makes the difference wrap to
\* more than period * 10.
areExternalInterruptsAt(now, last_period) ==
    now >= last_period /\ now - last_period < period * 10

\* HOTGUN::setTemp.
setTemp(h, t) == [h EXCEPT !.temp_set = t]

\* HOTGUN::areExternalInterrupts, of millis() - last_period.
areExternalInterrupts(ms) == ms < period * 10

\* HOTGUN::setFanSpeed.
setFanSpeed(h, f) ==
    [h EXCEPT !.fan_speed = f, !.duty = IF h.on THEN f ELSE h.duty]

\* The test of the thermal cutoff with its margin ten units too wide.
TooHotWide(h, temp) == ~h.chill /\ h.on /\ temp > (h.temp_set + 30) % W16

\* The test of the thermal cutoff, in unsigned 16-bit arithmetic.
TooHot(h, temp) == ~h.chill /\ h.on /\ temp > (h.temp_set + 20) % W16

\* The test that ends chilling, in unsigned 16-bit arithmetic.
Chilled(h, temp) == temp < (h.temp_set - 8) % W16

\* HOTGUN::keepTemp up to the cutoff test: h_temp.put(temp), and
\* digitalWrite(gun_pin, LOW) when the cutoff applies.
ktRead(h, temp) ==
    LET h1 == [h EXCEPT !.h_temp = HistoryPut(h.h_temp, temp)]
    IN  IF TooHot(h, temp) THEN [h1 EXCEPT !.gun_pin = FALSE] ELSE h1

\* The rest of the cutoff: actual_power = 0; chill = true.
ktCut(h) == [h EXCEPT !.actual_power = 0, !.chill = TRUE]

\* ktRegulate without constrain(): the low byte of the power the PID asks
\* for becomes the applied power.
ktRegulateUnbounded(h, temp) ==
    [reqPower(h, h.temp_set, temp).obj EXCEPT
        !.power = reqPower(h, h.temp_set, temp).pwr,
        !.actual_power = reqPower(h, h.temp_set, temp).pwr % W8,
        !.h_power = HistoryPut(h.h_power, reqPower(h, h.temp_set, temp).pwr % W8)]

\* power = reqPower(...); actual_power = constrain(power, 0, period);
\* h_power.put(actual_power).
ktRegulate(h, temp) ==
    LET r == reqPower(h, h.temp_set, temp)
        p == IF r.pwr < 0 THEN 0 ELSE IF r.pwr > period THEN period ELSE r.pwr
    IN  [r.obj EXCEPT !.power = r.pwr, !.actual_power = p,
                      !.h_power = HistoryPut(h.h_power, p)]

\* The if (on) ... else ... statement of keepTemp without the
\* digitalWrite of its else branch: the object and where keepTemp goes on
\* ("ret": the return out of keepTemp, "pin": the digitalWrite, "fan").
ktOn(h, temp) ==
    IF h.on
    THEN IF h.chill
         THEN IF Chilled(h, temp)
              THEN [ obj |-> ktRegulate(resetPID([h EXCEPT !.chill = FALSE], -1), temp),
                     to  |-> "fan" ]
              ELSE [ obj |-> [h EXCEPT !.power = 0, !.actual_power = 0],
                     to  |-> "ret" ]
         ELSE [obj |-> ktRegulate(h, temp), to |-> "fan"]
    ELSE IF ~h.fix_power
         THEN [obj |-> [h EXCEPT !.actual_power = 0], to |-> "pin"]
         ELSE [obj |-> h, to |-> "fan"]

\* digitalWrite(gun_pin, LOW) of the else branch.
ktOffPin(h) == [h EXCEPT !.gun_pin = FALSE]

\* The fan part of keepTemp.
ktFan(h, temp) ==
    IF h.fan
    THEN IF h.actual_power = 0 /\ temp <= temp_gun_cold
         THEN [h EXCEPT !.duty = 0, !.fan = FALSE]
         ELSE h
    ELSE IF temp > temp_gun_cold
         THEN [h EXCEPT !.duty = h.fan_speed, !.fan = TRUE]
         ELSE h

\* HOTGUN::keepTemp as one call, no interrupt in between.
keepTemp(h, temp) ==
    LET h1 == ktRead(h, temp)
        h2 == IF TooHot(h, temp) THEN ktCut(h1) ELSE h1
        r  == ktOn(h2, temp)
    IN  IF r.to = "ret" THEN r.obj
        ELSE IF r.to = "pin" THEN ktFan(ktOffPin(r.obj), temp)
        ELSE ktFan(r.obj, temp)

(***************************************************************************)
(* The screens: mainSCREEN::init and the calibration screen.               *)
(***************************************************************************)
\* The clock and last_period after HOTGUN::init, no read under way.
StampNew ==
    [ now |-> 0, last_period |-> 0, got |-> <<-1, -1, -1, -1>>, held |-> {},
      done |-> FALSE, seen |-> 0, result |-> FALSE ]

\* The calibSCREEN object before its first init.
CalibScreenNew == [preset_temp |-> 0, calib_temp |-> <<temp_tip, def_tip>>]

\* The value temp_max of calibSCREEN.
temp_max == 900

\* The product of two uint16_t values, an unsigned int of 16 bits.
MulU16(x, y) == (x * y) % W16

\* round() of the quotient n / d of two integers, d > 0: to the nearest
\* integer, halves away from zero.
RoundDivPos(n, d) ==
    IF n >= 0 THEN n \div d + (IF 2 * (n % d) >= d THEN 1 ELSE 0)
    ELSE -((-n) \div d + (IF 2 * ((-n) % d) >= d THEN 1 ELSE 0))

\* The same for a divisor of either sign (d # 0).
RoundDiv(n, d) == IF d > 0 THEN RoundDivPos(n, d) ELSE RoundDivPos(-n, -d)

\* The sums of calibSCREEN::buildCalibration over the three points.
SumXY(ct) == MulU16(ct[1][1], ct[2][1]) + MulU16(ct[1][2], ct[2][2])
                + MulU16(ct[1][3], ct[2][3])

SumX(ct) == ct[1][1] + ct[1][2] + ct[1][3]

SumY(ct) == ct[2][1] + ct[2][2] + ct[2][3]

SumX2(ct) == MulU16(ct[1][1], ct[1][1]) + MulU16(ct[1][2], ct[1][2])
                + MulU16(ct[1][3], ct[1][3])

\* The numerator and the denominator of the slope a.
SlopeNum(ct) == 3 * SumXY(ct) - SumX(ct) * SumY(ct)

SlopeDen(ct) == 3 * SumX2(ct) - SumX(ct) * SumX(ct)

\* round(a * t + b) with b = (sum_Y - a * sum_X) / 3, computed exactly.
FitAt(ct, t) ==
    RoundDiv(SlopeNum(ct) * (3 * t - SumX(ct)) + SumY(ct) * SlopeDen(ct),
             3 * SlopeDen(ct))

\* calibSCREEN::buildCalibration: the references at temp_tip on the line
\* fitted to the points calib_temp (the denominator is not 0 and the fitted
\* values are not negative for the points met here).
buildCalibration(ct) ==
    << FitAt(ct, temp_tip[1]), FitAt(ct, temp_tip[2]),
       IF FitAt(ct, temp_tip[3]) > temp_max THEN temp_max
       ELSE FitAt(ct, temp_tip[3]) >>

\* mainSCREEN::init: the gun, the configuration and the EEPROM after it, and
\* the number of saves made.
mainScreenInit(h, c, e) ==
    IF ~isCold(c, average(h.h_temp))
    THEN [ hg |-> switchPower(h, FALSE),
           obj |-> HotgunCfgSave(c, e, h.temp_set, h.fan_speed).obj,
           ee |-> HotgunCfgSave(c, e, h.temp_set, h.fan_speed).ee,
           saves |-> 1 ]
    ELSE [ hg |-> switchPower(h, FALSE), obj |-> c, ee |-> e, saves |-> 0 ]

\* calibSCREEN::init: the gun and the screen object after it.
calibScreenInit(h, c) ==
    [ hg |-> setTemp(switchPower(h, FALSE), tempInternal(c, temp_tip[1])),
      scr |-> [ preset_temp |-> tempHuman(c, h.temp_set),
                calib_temp |-> <<temp_tip, c.t_tip>> ] ]

\* calibSCREEN::menu_long up to pCfg->save(preset_temp, fan): the
\* configuration and the EEPROM after the save.
calibSave(h, c, e, scr) ==
    HotgunCfgSave(saveCalibrationData(c, buildCalibration(scr.calib_temp)),
                  e, scr.preset_temp, h.fan_speed)

\* calibSCREEN::menu_long: the gun, the configuration and the EEPROM.
calibMenuLong(h, c, e, scr) ==
    [ hg |-> setTemp(switchPower(h, FALSE),
                     tempInternal(calibSave(h, c, e, scr).obj, scr.preset_temp)),
      obj |-> calibSave(h, c, e, scr).obj,
      ee |-> calibSave(h, c, e, scr).ee ]

(***************************************************************************)
(* State.                                                                  *)
(*   ee        the EEPROM cells                                            *)
(*   hgCfg     the HOTGUN_CFG object                                       *)
(*   up        whether the station is powered                              *)
(*   is_valid  the value the last CONFIG::load returned                    *)
(*   hg        the HOTGUN object                                           *)
(*   end_of_power_period, pCurrentScreen   the globals of the sketch       *)
(*             (pCurrentScreen: "err" for errScr, "calib" for clbScr,      *)
(*             "work" for wrkScr, "app" for the main or any other screen)  *)
(*   clbScr    the calibSCREEN object: preset_temp and calib_temp          *)
(*   stamp     millis() (now) and HOTGUN::last_period in ms, with the read *)
(*             of last_period by the main loop, one byte at a time: the    *)
(*             bytes got so far (-1: not yet), the values last_period held *)
(*             since the read began, and, the read done, the value seen    *)
(*             and the answer of areExternalInterrupts                     *)
(*   pc, ret, temp   where the main loop stands, where the running         *)
(*             switchPower(false) returns to, and keepTemp's local temp    *)
(*   elapsed   millis() - last_period, in ms, kept up to 10 * period       *)
(*   nkeep     the number of keepTemp calls so far (bounded by MaxKeep)    *)
(* History variables, which no operation reads:                            *)
(*   unserved  whether syncCB has returned true since keepTemp last began  *)
(*   latched   whether switchPower(false) has returned and since then      *)
(*             the gun was neither switched on nor given a power           *)
(*   held      the wraps of the counter, up to two, since actual_power     *)
(*             last changed                                                *)
(*   fault     "found" while the main loop handles a failed check of the   *)
(*             interrupts, "done" from its end to the next loop iteration  *)
(*   recent    the items put through the HISTORY interface, the oldest     *)
(*             first, the H_LENGTH most recent of them at most             *)
(*   sinceEdge the time in ms, kept up to 10 * period, since the last edge *)
(*             of the mains that syncAC saw, -1 before the first           *)
(*   offEdges  the edges of the mains, up to two, that syncAC has seen     *)
(*             since actual_power last fell to 0                           *)
(*   fresh     whether actual_power is the value keepTemp gave it at the   *)
(*             last wrap of the counter, the gun being on                  *)
(*   pinned    the power the last fixPower call fixed, 0 if it switched    *)
(*             the power off or switchPower was called since               *)
(*   pidCall   the calls of PID::reqPower since PID::resetPID, the          *)
(*             arguments of the last one and the value it returned         *)
(*   sop       the last operation on the store                             *)
(*   nsaves    the number of saves begun, ntorn those cut by a power loss  *)
(*   nflips    the number of bits of the EEPROM that have flipped: the     *)
(*             decay modelled is that of a single bit                      *)
(*   completed the payload of the last save that returned, if any          *)
(*   run       the number of saves since the erased store with nothing but *)
(*             saves and loads in between, -1 after a restart              *)
(*   conv      the last conversion asked for since the references t_tip    *)
(*             were set: of a preset (asked), the Celsius value t, the raw *)
(*             value tempInternal gave, the Celsius reading of that value; *)
(*             or of a reading (read), the raw value, its Celsius reading  *)
(*             and the answer of isCold                                    *)
(***************************************************************************)
VARIABLES ee, hgCfg, up, is_valid, sop, nsaves, ntorn, nflips, completed, run,
          hg, end_of_power_period, pCurrentScreen, pc, ret, temp, elapsed,
          nkeep, unserved, latched, held, fault, conv, pidCall, pinned,
          sinceEdge, recent, offEdges, fresh, clbScr, stamp

storeVars ==
    <<ee, hgCfg, up, is_valid, sop, nsaves, ntorn, nflips, completed, run,
      conv>>

loopVars == <<end_of_power_period, pCurrentScreen, pc, ret, temp, elapsed>>

gateVars == <<offEdges, fresh>>

ghostVars ==
    <<unserved, latched, held, fault, pidCall, pinned, sinceEdge, recent,
      gateVars, stamp>>

ctlVars == <<hg, loopVars, nkeep, ghostVars, clbScr>>

vars == <<storeVars, ctlVars>>

\* No call of PID::reqPower since PID::resetPID.
NoCall == [n |-> 0, temp_set |-> 0, temp_curr |-> 0, pwr |-> 0]

\* No conversion asked for yet.
NoConv ==
    [asked |-> FALSE, read |-> FALSE, t |-> 0, raw |-> 0, tH |-> 0,
     cold |-> FALSE]

\* The payloads saved: the defaults and another record.
Payloads ==
    { CfgBytes([calibration |-> PackTip(def_tip), temp |-> def_temp,
                fan |-> def_fan, off_timeout |-> 0]),
      CfgBytes([calibration |-> PackTip(<<500, 700, 900>>), temp |-> 300,
                fan |-> 100, off_timeout |-> 0]) }

\* The numbers of EEPROM writes after which a save is cut: in the ID, after
\* the ID, in the payload, before the checksum.
TornAt == {1, id_size, id_size + 4, id_size + cfg_size}

\* The erased EEPROM.
Erased == [a \in 0..(eLength - 1) |-> erased_byte]

\* setup() on an erased EEPROM, and the main loop at its first iteration.
Init ==
    /\ ee = Erased
    /\ hgCfg = HotgunCfgInit(ConfigNew, Erased).obj
    /\ is_valid = HotgunCfgInit(ConfigNew, Erased).is_valid
    /\ up = TRUE
    /\ sop = "init"
    /\ nsaves = 0
    /\ ntorn = 0
    /\ nflips = 0
    /\ completed = <<>>
    /\ run = 0
    /\ hg = HotgunNew
    /\ end_of_power_period = FALSE
    /\ pCurrentScreen = "app"
    /\ pc = "ui"
    /\ ret = "ui"
    /\ temp = 0
    /\ elapsed = 0
    /\ nkeep = 0
    /\ unserved = FALSE
    /\ latched = FALSE
    /\ held = 0
    /\ fault = "none"
    /\ conv = NoConv
    /\ pidCall = NoCall
    /\ pinned = 0
    /\ sinceEdge = -1
    /\ recent = <<>>
    /\ offEdges = 0
    /\ fresh = FALSE
    /\ clbScr = CalibScreenNew
    /\ stamp = StampNew

\* CONFIG::saveConfig(Cfg).
SaveConfig(Cfg) ==
    /\ up
    /\ nsaves < MaxSaves
    /\ hgCfg' = ConfigSave(updateConfig(hgCfg, Cfg), ee).obj
    /\ ee' = ConfigSave(updateConfig(hgCfg, Cfg), ee).ee
    /\ sop' = "save"
    /\ nsaves' = nsaves + 1
    /\ completed' = <<Cfg>>
    /\ run' = IF run >= 0 THEN run + 1 ELSE run
    /\ UNCHANGED <<up, is_valid, ntorn, nflips, conv, ctlVars>>

\* CONFIG::load(), not twice in a row.
Load ==
    /\ up
    /\ sop \notin {"load", "load after save"}
    /\ hgCfg' = ConfigLoad(hgCfg, ee).obj
    /\ is_valid' = ConfigLoad(hgCfg, ee).is_valid
    /\ sop' = IF sop = "save" THEN "load after save" ELSE "load"
    /\ UNCHANGED <<ee, up, nsaves, ntorn, nflips, completed, run,
                   conv, ctlVars>>

\* CONFIG::saveConfig(Cfg) cut by a loss of power after k of its EEPROM writes.
TornSave(Cfg, k) ==
    /\ up
    /\ nsaves < MaxSaves
    /\ ntorn < MaxTorn
    /\ ntorn' = ntorn + 1
    /\ ee' = WriteAll(ee, SaveWrites(updateConfig(hgCfg, Cfg)), k)
    /\ hgCfg' = ConfigNew
    /\ up' = FALSE
    /\ sop' = "power loss"
    /\ nsaves' = nsaves + 1
    /\ run' = -1
    /\ UNCHANGED <<is_valid, nflips, completed, conv, ctlVars>>

\* Reset or power on: setup() runs HOTGUN_CFG::init.
Restart ==
    /\ hgCfg' = HotgunCfgInit(ConfigNew, ee).obj
    /\ is_valid' = HotgunCfgInit(ConfigNew, ee).is_valid
    /\ up' = TRUE
    /\ sop' = IF up THEN "init" ELSE "init after power loss"
    /\ run' = -1
    /\ conv' = NoConv
    /\ UNCHANGED <<ee, nsaves, ntorn, nflips, completed, ctlVars>>

StoreNext ==
    \/ \E Cfg \in Payloads : SaveConfig(Cfg)
    \/ Load
    \/ \E Cfg \in Payloads, k \in TornAt : TornSave(Cfg, k)
    \/ Restart

SpecStore == Init /\ [][StoreNext]_vars

(***************************************************************************)
(* The store with an EEPROM whose cells decay: a bit of an ID byte or of a *)
(* payload byte of some slot flips.                                        *)
(***************************************************************************)
\* The byte v with its bit b flipped.
FlipBit(v, b) ==
    IF (v \div Pow(2, b)) % 2 = 1 THEN v - Pow(2, b) ELSE v + Pow(2, b)

\* The cells that hold the ID and the payload of a slot.
RecordCells == {a \in 0..(eLength - 1) : a % record_size < id_size + cfg_size}

\* The bits of the cell a that flip: all but the top bit of the ID, so that
\* the IDs stay below 2^31.
FlipBits(a) == IF a % record_size = id_size - 1 THEN 0..6 ELSE 0..7

BitFlip(a, b) ==
    /\ up
    /\ nflips = 0
    /\ nflips' = nflips + 1
    /\ ee' = EepromWrite(ee, a, FlipBit(EepromRead(ee, a), b))
    /\ sop' = "bit flip"
    /\ run' = -1
    /\ UNCHANGED <<hgCfg, up, is_valid, nsaves, ntorn, completed,
                   conv, ctlVars>>

DecayNext ==
    \/ \E Cfg \in Payloads : nsaves < MaxDecaySaves /\ SaveConfig(Cfg)
    \/ Load
    \/ Restart
    \/ \E a \in RecordCells : \E b \in FlipBits(a) : BitFlip(a, b)

SpecDecay == Init /\ [][DecayNext]_vars

(***************************************************************************)
(* The HOTGUN_CFG interface: calibration, presets, defaults.               *)
(***************************************************************************)
\* The calibrations, presets and fan speeds the calls are made with.
Tips == {<<587, 751, 850>>, <<500, 700, 950>>, <<700, 600, 500>>}

Presets == {40, 300, 950}

Fans == {64, 100}

CfgApplyCalibration(tip) ==
    /\ up
    /\ hgCfg' = applyCalibrationData(hgCfg, tip)
    /\ sop' = "applyCalibrationData"
    /\ run' = -1
    /\ conv' = NoConv
    /\ UNCHANGED <<ee, up, is_valid, nsaves, ntorn, nflips,
                   completed, ctlVars>>

CfgSaveCalibration(tip) ==
    /\ up
    /\ hgCfg' = saveCalibrationData(hgCfg, tip)
    /\ sop' = "saveCalibrationData"
    /\ run' = -1
    /\ conv' = NoConv
    /\ UNCHANGED <<ee, up, is_valid, nsaves, ntorn, nflips,
                   completed, ctlVars>>

CfgSetDefaults(Write) ==
    /\ up
    /\ Write => nsaves < MaxCfgSaves
    /\ hgCfg' = setDefaultsWrite(hgCfg, ee, Write).obj
    /\ ee' = setDefaultsWrite(hgCfg, ee, Write).ee
    /\ nsaves' = IF Write THEN nsaves + 1 ELSE nsaves
    /\ completed' = IF Write THEN <<hgCfg'.Config>> ELSE completed
    /\ sop' = "setDefaults"
    /\ run' = -1
    /\ UNCHANGED <<up, is_valid, ntorn, nflips, conv, ctlVars>>

CfgSave(t, fanSpeed) ==
    /\ up
    /\ nsaves < MaxCfgSaves
    /\ hgCfg' = HotgunCfgSave(hgCfg, ee, t, fanSpeed).obj
    /\ ee' = HotgunCfgSave(hgCfg, ee, t, fanSpeed).ee
    /\ nsaves' = nsaves + 1
    /\ completed' = <<hgCfg'.Config>>
    /\ sop' = "HOTGUN_CFG::save"
    /\ run' = -1
    /\ UNCHANGED <<up, is_valid, ntorn, nflips, conv, ctlVars>>

CfgNext ==
    \/ \E tip \in Tips : CfgApplyCalibration(tip)
    \/ \E tip \in Tips : CfgSaveCalibration(tip)
    \/ \E Write \in BOOLEAN : CfgSetDefaults(Write)
    \/ \E t \in Presets, fanSpeed \in Fans : CfgSave(t, fanSpeed)
    \/ Restart

SpecCfg == Init /\ [][CfgNext]_vars

(***************************************************************************)
(* The conversions between Celsius and raw readings.                       *)
(***************************************************************************)
\* The calibrations installed: a first reference and two spans.
Bases == {1, 587}

Spans == {1, 49, 50, 164}

ConvTips ==
    { tip \in { <<a, a + d[1], a + d[1] + d[2]>> :
                  a \in Bases, d \in Spans \X Spans } : tip[3] <= max_temp }

\* The Celsius values between the first and the last reference.
CalibratedRange == temp_tip[1]..temp_tip[3]

\* The Celsius values tempInternal accepts as they are.
AcceptedRange == temp_minC..temp_maxC

\* A preset given in Celsius is made raw and shown again in Celsius.
Convert(t) ==
    /\ up
    /\ conv' = [asked |-> TRUE, read |-> FALSE, t |-> t,
                raw |-> tempInternal(hgCfg, t),
                tH |-> tempHuman(hgCfg, tempInternal(hgCfg, t)),
                cold |-> FALSE]
    /\ UNCHANGED <<ee, hgCfg, up, is_valid, sop, nsaves, ntorn, nflips,
                   completed, run, ctlVars>>

\* The raw readings asked about: around the limit of a cold gun under the
\* calibrations installed, around the first reference, and the ends.
RawReadings == {0, 1, 83, 84, 586, 587, 1023}

\* A raw reading is shown in Celsius and tested for a cold gun.
ReadCold(raw) ==
    /\ up
    /\ conv' = [asked |-> FALSE, read |-> TRUE, t |-> 0, raw |-> raw,
                tH |-> tempHuman(hgCfg, raw), cold |-> isCold(hgCfg, raw)]
    /\ UNCHANGED <<ee, hgCfg, up, is_valid, sop, nsaves, ntorn, nflips,
                   completed, run, ctlVars>>

ConvNext ==
    \/ \E tip \in ConvTips : CfgApplyCalibration(tip)
    \/ \E t \in AcceptedRange : Convert(t)
    \/ \E raw \in RawReadings : ReadCold(raw)

SpecConv == Init /\ [][ConvNext]_vars

(***************************************************************************)
(* The PID interface: resets and requests of power.                        *)
(***************************************************************************)
\* The setpoints and the measured temperatures of the requests, in raw
\* units, and the temperatures the PID is reset with.
PidSetpoints == {300, 400, 900}

PidMeasured == {0, 250, 280, 300, 912, 1023}

PidResets == {-1, 250}

PidReset(t) ==
    /\ hg' = resetPID(hg, t)
    /\ pidCall' = NoCall
    /\ UNCHANGED <<storeVars, clbScr, loopVars, nkeep, unserved, latched, held, fault,
                   recent, sinceEdge, gateVars, stamp,
                   pinned>>

PidReqPower(t_set, t_curr) ==
    /\ pidCall.n < MaxPidCalls
    /\ hg' = reqPower(hg, t_set, t_curr).obj
    /\ pidCall' = [n |-> pidCall.n + 1, temp_set |-> t_set,
                   temp_curr |-> t_curr,
                   pwr |-> reqPower(hg, t_set, t_curr).pwr]
    /\ UNCHANGED <<storeVars, clbScr, loopVars, nkeep, unserved, latched, held, fault,
                   recent, sinceEdge, gateVars, stamp,
                   pinned>>

PidNext ==
    \/ \E t \in PidResets : PidReset(t)
    \/ \E t_set \in PidSetpoints, t_curr \in PidMeasured :
           PidReqPower(t_set, t_curr)

SpecPid == Init /\ [][PidNext]_vars

(***************************************************************************)
(* The HISTORY interface: puts into the history of temperatures h_temp.    *)
(***************************************************************************)
\* The items put.
HistItems == {5, 8}

\* The items kept after one more: the H_LENGTH most recent.
Keep(q, item) ==
    IF Len(q) < H_LENGTH THEN Append(q, item) ELSE Append(Tail(q), item)

\* h_temp.put(item); the ring of H_LENGTH items keeps the states finite.
HistPut(item) ==
    /\ hg' = [hg EXCEPT !.h_temp = HistoryPut(@, item)]
    /\ recent' = Keep(recent, item)
    /\ UNCHANGED <<storeVars, clbScr, loopVars, nkeep, unserved, latched, held, fault,
                   pidCall, pinned, sinceEdge, gateVars, stamp>>

HistNext == \E item \in HistItems : HistPut(item)

SpecHist == Init /\ [][HistNext]_vars

(***************************************************************************)
(* The HOTGUN interface called from one thread, each call running to its   *)
(* end with no zero-cross interrupt.                                       *)
(***************************************************************************)
\* Readings of the sensor, presets and fan speeds the calls are made with.
Samples == {80, 591, 592, 620, 621}

Setpoints == {5, 600}

FanSpeeds == {20, 64}

Powers == {0, 30}

ApiKeepTemp(s) ==
    /\ nkeep < MaxKeep
    /\ hg' = keepTemp(hg, s)
    /\ nkeep' = nkeep + 1
    /\ UNCHANGED <<storeVars, clbScr, loopVars, ghostVars>>

ApiSwitchPower(On) ==
    /\ hg' = switchPower(hg, On)
    /\ pinned' = 0
    /\ UNCHANGED <<storeVars, clbScr, loopVars, nkeep, unserved, latched, held, fault,
                   recent, sinceEdge, gateVars, stamp,
                   pidCall>>

ApiFixPower(Power) ==
    /\ hg' = fixPower(hg, Power)
    /\ pinned' = IF Power > period THEN period ELSE Power
    /\ UNCHANGED <<storeVars, clbScr, loopVars, nkeep, unserved, latched, held, fault,
                   recent, sinceEdge, gateVars, stamp,
                   pidCall>>

ApiSetTemp(t) ==
    /\ hg' = setTemp(hg, t)
    /\ UNCHANGED <<storeVars, clbScr, loopVars, nkeep, ghostVars>>

ApiSetFanSpeed(f) ==
    /\ hg' = setFanSpeed(hg, f)
    /\ UNCHANGED <<storeVars, clbScr, loopVars, nkeep, ghostVars>>

ApiNext ==
    \/ \E s \in Samples : ApiKeepTemp(s)
    \/ \E On \in BOOLEAN : ApiSwitchPower(On)
    \/ \E Power \in Powers : ApiFixPower(Power)
    \/ \E t \in Setpoints : ApiSetTemp(t)
    \/ \E f \in FanSpeeds : ApiSetFanSpeed(f)

SpecApi == Init /\ [][ApiNext]_vars

(***************************************************************************)
(* The main loop and the zero-cross interrupt.  The steps of the main loop *)
(* are the stretches of loop() between two accesses to what it shares with *)
(* syncAC (cnt, actual_power, active, the heater pin, end_of_power_period);*)
(* syncAC runs between any two of them.                                    *)
(***************************************************************************)
\* The readings and the fixed powers of this specification.
IrqSamples == {80, 700}

IrqPowers == {0, 30, 100}

\* How the history variables follow a step.
Wrapped == hg.cnt # 0 /\ hg'.cnt = 0

\* The history variables of the gating of the heater.
GhostIrq ==
    /\ unserved' = IF Wrapped THEN TRUE
                   ELSE IF pc = "sync" /\ pc' = "kt_read" THEN FALSE
                   ELSE unserved
    /\ latched' = IF hg'.on \/ hg'.actual_power > 0 THEN FALSE
                  ELSE IF pc = "sp_pow" /\ pc' # "sp_pow" THEN TRUE
                  ELSE latched
    /\ held' = IF hg'.actual_power # hg.actual_power THEN 0
               ELSE IF Wrapped /\ held < 2 THEN held + 1
               ELSE held
    /\ UNCHANGED <<fault, pidCall, pinned, sinceEdge, recent, gateVars,
                   stamp>>

\* The history variables of the check of the interrupts.
GhostAc ==
    /\ fault' = IF pc = "ac" /\ pc' = "sp_pin" THEN "found"
                ELSE IF /\ pc = "ac" /\ pc' = "ui" /\ pCurrentScreen = "err"
                        /\ ~areExternalInterrupts(elapsed)
                     THEN "done"
                ELSE IF fault = "found" /\ pc = "sp_pow" /\ pc' # "sp_pow"
                     THEN "done"
                ELSE IF pc = "ui" /\ pc' # "ui" THEN "none"
                ELSE fault
    /\ sinceEdge' = IF hg'.cnt # hg.cnt THEN 0
                    ELSE IF elapsed' > elapsed /\ sinceEdge >= 0
                    THEN (IF sinceEdge + TimeStep > period * 10
                          THEN period * 10 ELSE sinceEdge + TimeStep)
                    ELSE sinceEdge
    /\ UNCHANGED <<unserved, latched, held, pidCall, pinned, recent,
                   gateVars, stamp>>

\* syncAC: end_of_power_period = hg.syncCB(), which notes the time of a wrap.
ZeroCross ==
    /\ hg' = syncCB(hg).obj
    /\ end_of_power_period' = syncCB(hg).end
    /\ elapsed' = IF syncCB(hg).end THEN 0 ELSE elapsed
    /\ UNCHANGED <<storeVars, clbScr, pCurrentScreen, pc, ret, temp, nkeep>>

\* Time passes with no edge of the mains.
Tick ==
    /\ elapsed < period * 10
    /\ elapsed' = IF elapsed + TimeStep > period * 10
                  THEN period * 10 ELSE elapsed + TimeStep
    /\ UNCHANGED <<storeVars, clbScr, hg, end_of_power_period, pCurrentScreen, pc,
                   ret, temp, nkeep>>

\* The calls of the current screen that end with the gun on or with a
\* power set: workSCREEN::init, tuneSCREEN.
UiSwitchOn ==
    /\ pc = "ui" /\ pCurrentScreen = "app"
    /\ hg' = switchOn(hg)
    /\ pc' = "sync"
    /\ UNCHANGED <<storeVars, clbScr, end_of_power_period, pCurrentScreen, ret, temp,
                   elapsed, nkeep>>

UiFixPower(Power) ==
    /\ pc = "ui" /\ pCurrentScreen = "app"
    /\ hg' = fixPower(hg, Power)
    /\ pc' = "sync"
    /\ UNCHANGED <<storeVars, clbScr, end_of_power_period, pCurrentScreen, ret, temp,
                   elapsed, nkeep>>

\* A screen whose init calls switchPower(false) becomes the current one:
\* by the reed switch, after which loop() returns, or by the button.
UiSwitchOff(to) ==
    /\ pc = "ui"
    /\ pCurrentScreen' = "app"
    /\ pc' = "sp_pin"
    /\ ret' = to
    /\ UNCHANGED <<storeVars, clbScr, hg, end_of_power_period, temp, elapsed, nkeep>>

\* An iteration in which the screen calls nothing of the gun.
UiIdle ==
    /\ pc = "ui"
    /\ pc' = "sync"
    /\ UNCHANGED <<storeVars, clbScr, hg, end_of_power_period, pCurrentScreen, ret,
                   temp, elapsed, nkeep>>

\* switchPower(false): on = On; digitalWrite(gun_pin, LOW).
SpPin ==
    /\ pc = "sp_pin"
    /\ hg' = switchOffPin(hg)
    /\ pc' = "sp_pow"
    /\ UNCHANGED <<storeVars, clbScr, end_of_power_period, pCurrentScreen, ret, temp,
                   elapsed, nkeep>>

\* switchPower(false): actual_power = 0, and the return.
SpPow ==
    /\ pc = "sp_pow"
    /\ hg' = switchOffPower(hg)
    /\ pc' = ret
    /\ ret' = "ui"
    /\ UNCHANGED <<storeVars, clbScr, end_of_power_period, pCurrentScreen, temp,
                   elapsed, nkeep>>

\* if (end_of_power_period) hg.keepTemp(): the test.
Sync ==
    /\ pc = "sync"
    /\ end_of_power_period => nkeep < MaxCycles
    /\ pc' = IF end_of_power_period THEN "kt_read" ELSE "ac"
    /\ nkeep' = IF end_of_power_period THEN nkeep + 1 ELSE nkeep
    /\ UNCHANGED <<storeVars, clbScr, hg, end_of_power_period, pCurrentScreen, ret,
                   temp, elapsed>>

\* keepTemp: analogRead, h_temp.put, the cutoff test and its digitalWrite.
KtRead(s) ==
    /\ pc = "kt_read"
    /\ temp' = s
    /\ hg' = ktRead(hg, s)
    /\ pc' = IF TooHot(hg, s) THEN "kt_cut" ELSE "kt_on"
    /\ UNCHANGED <<storeVars, clbScr, end_of_power_period, pCurrentScreen, ret,
                   elapsed, nkeep>>

\* keepTemp: actual_power = 0; chill = true.
KtCut ==
    /\ pc = "kt_cut"
    /\ hg' = ktCut(hg)
    /\ pc' = "kt_on"
    /\ UNCHANGED <<storeVars, clbScr, end_of_power_period, pCurrentScreen, ret, temp,
                   elapsed, nkeep>>

\* keepTemp: the if (on) statement up to its write of actual_power.
KtOn ==
    /\ pc = "kt_on"
    /\ hg' = ktOn(hg, temp).obj
    /\ pc' = IF ktOn(hg, temp).to = "ret" THEN "clear"
             ELSE IF ktOn(hg, temp).to = "pin" THEN "kt_pin" ELSE "kt_fan"
    /\ UNCHANGED <<storeVars, clbScr, end_of_power_period, pCurrentScreen, ret, temp,
                   elapsed, nkeep>>

\* keepTemp: digitalWrite(gun_pin, LOW) of the else branch.
KtPin ==
    /\ pc = "kt_pin"
    /\ hg' = ktOffPin(hg)
    /\ pc' = "kt_fan"
    /\ UNCHANGED <<storeVars, clbScr, end_of_power_period, pCurrentScreen, ret, temp,
                   elapsed, nkeep>>

\* keepTemp: the fan, and the return.
KtFan ==
    /\ pc = "kt_fan"
    /\ hg' = ktFan(hg, temp)
    /\ pc' = "clear"
    /\ UNCHANGED <<storeVars, clbScr, end_of_power_period, pCurrentScreen, ret, temp,
                   elapsed, nkeep>>

\* The return of keepTemp with end_of_power_period left as it is.
ClearKeepsFlag ==
    /\ pc = "clear"
    /\ temp' = 0
    /\ pc' = "ac"
    /\ UNCHANGED <<storeVars, clbScr, hg, end_of_power_period, pCurrentScreen, ret,
                   elapsed, nkeep>>

\* end_of_power_period = false.
Clear ==
    /\ pc = "clear"
    /\ end_of_power_period' = FALSE
    /\ temp' = 0
    /\ pc' = "ac"
    /\ UNCHANGED <<storeVars, clbScr, hg, pCurrentScreen, ret, elapsed, nkeep>>

\* if (millis() > ac_check) is false.
AcSkip ==
    /\ pc = "ac"
    /\ pc' = "ui"
    /\ UNCHANGED <<storeVars, clbScr, hg, end_of_power_period, pCurrentScreen, ret,
                   temp, elapsed, nkeep>>

\* The check of hg.areExternalInterrupts(), and errScr made the current
\* screen when it fails: errorSCREEN::init calls switchPower(false).
AcCheck ==
    /\ pc = "ac"
    /\ pCurrentScreen' = IF areExternalInterrupts(elapsed)
                         THEN pCurrentScreen ELSE "err"
    /\ pc' = IF ~areExternalInterrupts(elapsed) /\ pCurrentScreen # "err"
             THEN "sp_pin" ELSE "ui"
    /\ UNCHANGED <<storeVars, clbScr, hg, end_of_power_period, ret, temp, elapsed,
                   nkeep>>

\* The mains present: an edge comes before the clock has moved by a step.
IrqNext ==
    \/ ZeroCross /\ GhostIrq
    \/ UiSwitchOn /\ GhostIrq
    \/ \E Power \in IrqPowers : UiFixPower(Power) /\ GhostIrq
    \/ \E to \in {"ui", "sync"} : UiSwitchOff(to) /\ GhostIrq
    \/ UiIdle /\ GhostIrq
    \/ SpPin /\ GhostIrq
    \/ SpPow /\ GhostIrq
    \/ Sync /\ GhostIrq
    \/ \E s \in IrqSamples : KtRead(s) /\ GhostIrq
    \/ KtCut /\ GhostIrq
    \/ KtOn /\ GhostIrq
    \/ KtPin /\ GhostIrq
    \/ KtFan /\ GhostIrq
    \/ Clear /\ GhostIrq
    \/ AcSkip /\ GhostIrq
    \/ AcCheck /\ GhostIrq

SpecIrq == Init /\ [][IrqNext]_vars

\* The mains may fail: time passes with no edge.
AcNext ==
    \/ ZeroCross /\ GhostAc
    \/ Tick /\ GhostAc
    \/ UiSwitchOn /\ GhostAc
    \/ \E Power \in IrqPowers : UiFixPower(Power) /\ GhostAc
    \/ \E to \in {"ui", "sync"} : UiSwitchOff(to) /\ GhostAc
    \/ UiIdle /\ GhostAc
    \/ SpPin /\ GhostAc
    \/ SpPow /\ GhostAc
    \/ Sync /\ GhostAc
    \/ \E s \in IrqSamples : KtRead(s) /\ GhostAc
    \/ KtCut /\ GhostAc
    \/ KtOn /\ GhostAc
    \/ KtPin /\ GhostAc
    \/ KtFan /\ GhostAc
    \/ Clear /\ GhostAc
    \/ AcSkip /\ GhostAc
    \/ AcCheck /\ GhostAc

SpecAc == Init /\ [][AcNext]_vars

\* The readings of the specification of the gating: with the preset of 600
\* the PID gives 8 and then 10 for 580, and 700 is above the cutoff.
GateSamples == {580, 700}

\* An edge of the mains has been handled.
Edge == hg'.cnt # hg.cnt

\* The history variables of the gating by the computed power.
GhostGate ==
    /\ offEdges' = IF hg'.actual_power > 0 \/ hg.actual_power > 0 THEN 0
                   ELSE IF Edge /\ offEdges < 2 THEN offEdges + 1
                   ELSE offEdges
    /\ fresh' = IF Edge /\ hg'.cnt = 0 THEN FALSE
                ELSE IF pc = "kt_on" /\ pc' # "kt_on" /\ hg.on THEN TRUE
                ELSE IF pc \in {"sp_pin", "sp_pow"} THEN FALSE
                ELSE IF pc = "ui" /\ hg'.actual_power # hg.actual_power
                     THEN FALSE
                ELSE fresh
    /\ UNCHANGED <<unserved, latched, held, fault, pidCall, pinned,
                   sinceEdge, recent, stamp>>

\* The mains present, the history variables those of the gating.
GateNext ==
    \/ ZeroCross /\ GhostGate
    \/ UiSwitchOn /\ GhostGate
    \/ \E Power \in IrqPowers : UiFixPower(Power) /\ GhostGate
    \/ \E to \in {"ui", "sync"} : UiSwitchOff(to) /\ GhostGate
    \/ UiIdle /\ GhostGate
    \/ SpPin /\ GhostGate
    \/ SpPow /\ GhostGate
    \/ Sync /\ GhostGate
    \/ \E s \in GateSamples : KtRead(s) /\ GhostGate
    \/ KtCut /\ GhostGate
    \/ KtOn /\ GhostGate
    \/ KtPin /\ GhostGate
    \/ KtFan /\ GhostGate
    \/ Clear /\ GhostGate
    \/ AcSkip /\ GhostGate
    \/ AcCheck /\ GhostGate

SpecGate == Init /\ [][GateNext]_vars

(***************************************************************************)
(* The read of last_period by areExternalInterrupts in the main loop, four *)
(* loads of one byte each in an order the compiler chooses, and the        *)
(* interrupt that writes it.                                               *)
(***************************************************************************)
\* Whether the main loop is in the middle of the read.
Reading == \E i \in 1..4 : stamp.got[i] # -1

\* syncAC: syncCB, whose wrap sets last_period = millis().
RaceEdge ==
    /\ ZeroCross
    /\ stamp' = IF syncCB(hg).end
                THEN [stamp EXCEPT !.last_period = stamp.now,
                                   !.held = IF Reading THEN @ \cup {stamp.now}
                                            ELSE @]
                ELSE stamp
    /\ UNCHANGED <<unserved, latched, held, fault, pidCall, pinned,
                   sinceEdge, recent, gateVars>>

\* The clock moves on.
RaceTick ==
    /\ stamp.now < MaxNow
    /\ stamp' = [stamp EXCEPT !.now = @ + ClockStep]
    /\ UNCHANGED <<storeVars, hg, loopVars, nkeep, clbScr, unserved, latched,
                   held, fault, pidCall, pinned, sinceEdge, recent, gateVars>>

\* The main loop loads byte i of last_period.
RaceReadByte(i) ==
    /\ stamp.got[i + 1] = -1
    /\ stamp' = [stamp EXCEPT !.got[i + 1] = ByteOf(stamp.last_period, i),
                              !.held = IF Reading THEN @
                                       ELSE {stamp.last_period},
                              !.done = FALSE]
    /\ UNCHANGED <<storeVars, hg, loopVars, nkeep, clbScr, unserved, latched,
                   held, fault, pidCall, pinned, sinceEdge, recent, gateVars>>

\* The four bytes loaded, areExternalInterrupts returns.
RaceReadEnd ==
    /\ \A i \in 1..4 : stamp.got[i] # -1
    /\ stamp' = [stamp EXCEPT
                    !.got = <<-1, -1, -1, -1>>,
                    !.done = TRUE,
                    !.seen = FromBytes(stamp.got),
                    !.result = areExternalInterruptsAt(stamp.now,
                                                       FromBytes(stamp.got))]
    /\ UNCHANGED <<storeVars, hg, loopVars, nkeep, clbScr, unserved, latched,
                   held, fault, pidCall, pinned, sinceEdge, recent, gateVars>>

RaceNext ==
    \/ RaceEdge
    \/ RaceTick
    \/ \E i \in 0..3 : RaceReadByte(i)
    \/ RaceReadEnd

SpecRace == Init /\ [][RaceNext]_vars

(***************************************************************************)
(* The screens that save the configuration.                                *)
(***************************************************************************)
\* The presets dialled on the main screen, in Celsius.
Dialled == {150, 300}

\* mainSCREEN::rotaryValue with mode_temp set.
ScrMainRotary(value) ==
    /\ up /\ pCurrentScreen = "app"
    /\ hg' = setTemp(hg, tempInternal(hgCfg, value))
    /\ UNCHANGED <<storeVars, loopVars, nkeep, ghostVars, clbScr>>

\* hg.keepTemp() of the main loop.
ScrKeepTemp(s) ==
    /\ up
    /\ nkeep < MaxKeep
    /\ hg' = keepTemp(hg, s)
    /\ nkeep' = nkeep + 1
    /\ UNCHANGED <<storeVars, loopVars, ghostVars, clbScr>>

\* The reed switch or the button makes wrkScr the current screen:
\* workSCREEN::init.
ScrWorkInit ==
    /\ up /\ pCurrentScreen = "app"
    /\ hg' = switchPower(hg, TRUE)
    /\ pCurrentScreen' = "work"
    /\ UNCHANGED <<storeVars, end_of_power_period, pc, ret, temp, elapsed,
                   nkeep, ghostVars, clbScr>>

\* The return from wrkScr to the main screen: mainSCREEN::init.
ScrMainInit ==
    /\ up /\ pCurrentScreen = "work"
    /\ nsaves < MaxCfgSaves
    /\ hg' = mainScreenInit(hg, hgCfg, ee).hg
    /\ hgCfg' = mainScreenInit(hg, hgCfg, ee).obj
    /\ ee' = mainScreenInit(hg, hgCfg, ee).ee
    /\ nsaves' = nsaves + mainScreenInit(hg, hgCfg, ee).saves
    /\ sop' = "mainSCREEN::init"
    /\ pCurrentScreen' = "app"
    /\ UNCHANGED <<up, is_valid, ntorn, nflips, completed, run, conv,
                   end_of_power_period, pc, ret, temp, elapsed, nkeep,
                   ghostVars, clbScr>>

\* The menu makes clbScr the current screen: calibSCREEN::init.
ScrCalibInit ==
    /\ up /\ pCurrentScreen = "app"
    /\ hg' = calibScreenInit(hg, hgCfg).hg
    /\ clbScr' = calibScreenInit(hg, hgCfg).scr
    /\ pCurrentScreen' = "calib"
    /\ UNCHANGED <<storeVars, end_of_power_period, pc, ret, temp, elapsed,
                   nkeep, ghostVars>>

\* The long press on clbScr: calibSCREEN::menu_long, which returns the main
\* screen, and mainSCREEN::init, which loop() calls next.
ScrCalibMenuLong ==
    /\ up /\ pCurrentScreen = "calib"
    /\ nsaves + 1 < MaxCfgSaves
    /\ hg' = mainScreenInit(calibMenuLong(hg, hgCfg, ee, clbScr).hg,
                            calibMenuLong(hg, hgCfg, ee, clbScr).obj,
                            calibMenuLong(hg, hgCfg, ee, clbScr).ee).hg
    /\ hgCfg' = mainScreenInit(calibMenuLong(hg, hgCfg, ee, clbScr).hg,
                               calibMenuLong(hg, hgCfg, ee, clbScr).obj,
                               calibMenuLong(hg, hgCfg, ee, clbScr).ee).obj
    /\ ee' = mainScreenInit(calibMenuLong(hg, hgCfg, ee, clbScr).hg,
                            calibMenuLong(hg, hgCfg, ee, clbScr).obj,
                            calibMenuLong(hg, hgCfg, ee, clbScr).ee).ee
    /\ nsaves' = nsaves + 1
                    + mainScreenInit(calibMenuLong(hg, hgCfg, ee, clbScr).hg,
                                     calibMenuLong(hg, hgCfg, ee, clbScr).obj,
                                     calibMenuLong(hg, hgCfg, ee, clbScr).ee).saves
    /\ sop' = "calibSCREEN::menu_long"
    /\ conv' = NoConv
    /\ pCurrentScreen' = "app"
    /\ UNCHANGED <<up, is_valid, ntorn, nflips, completed, run,
                   end_of_power_period, pc, ret, temp, elapsed, nkeep,
                   ghostVars, clbScr>>

ScreenNext ==
    \/ \E value \in Dialled : ScrMainRotary(value)
    \/ \E s \in IrqSamples : ScrKeepTemp(s)
    \/ ScrWorkInit
    \/ ScrMainInit
    \/ ScrCalibInit
    \/ ScrCalibMenuLong

SpecScreen == Init /\ [][ScreenNext]_vars

(***************************************************************************)
(* The thermal cutoff: claims C1, C2 (under SpecApi).                      *)
(***************************************************************************)
\* A step that is a call of keepTemp with the gun on, and its sample.
KeepTempOn == nkeep' = nkeep + 1 /\ hg.on

Sample == HistoryLast(hg'.h_temp)

\* C1 as the spec states it: with the gun on and regulating at S, a call of
\* keepTemp whose sample is S + 20 or above leaves actual_power 0 and the
\* controller chilling.
C1_CutoffAtOrAbove ==
    [][ (KeepTempOn /\ ~hg.chill /\ Sample >= hg.temp_set + 20)
            => (hg'.actual_power = 0 /\ hg'.chill) ]_vars

\* C1: with the gun on and regulating at S, a call of keepTemp whose sample
\* is strictly above S + 20 leaves actual_power 0; it leaves the controller
\* chilling unless the sample is below S - 8 taken modulo 2^16, which no
\* such sample is when S is 8 or more.
C1_CutoffAbove ==
    [][ (KeepTempOn /\ ~hg.chill /\ Sample > hg.temp_set + 20)
            => /\ hg'.actual_power = 0
               /\ hg'.chill <=> ~(Sample < (hg.temp_set - 8) % W16)
               /\ hg.temp_set >= 8 => hg'.chill ]_vars

\* The first call of keepTemp has cut the heater off.
C1_Witness ==
    /\ nkeep = 1
    /\ hg.on /\ hg.chill
    /\ HistoryLast(hg.h_temp) > hg.temp_set + 20
    /\ hg.actual_power = 0

\* C2: once chilling is entered at S, whatever S, each call of keepTemp with
\* the gun on and a sample not strictly below S - 8 leaves the controller
\* chilling with actual_power 0.
C2_ChillHolds ==
    [][ (/\ KeepTempOn
         /\ hg.chill \/ TooHot(hg, Sample)
         /\ ~(Sample < hg.temp_set - 8))
            => (hg'.chill /\ hg'.actual_power = 0) ]_vars

(***************************************************************************)
(* The main loop and the interrupt: claims C3 to C6 (under SpecIrq) and C7 *)
(* (under SpecAc).                                                         *)
(***************************************************************************)
\* C3: no boundary is lost: end_of_power_period, once set by the interrupt,
\* falls only by the main loop's end_of_power_period = false after keepTemp
\* has returned.
C3_NoBoundaryLost ==
    [][ (end_of_power_period /\ ~end_of_power_period')
            => (pc = "clear" /\ pc' = "ac") ]_vars

\* C4: keepTemp begins only when syncCB has returned true since keepTemp
\* last began: at most one call for one boundary.
C4_OneKeepTempPerBoundary ==
    [][ (pc = "sync" /\ pc' = "kt_read") => unserved ]_vars

\* The main loop is in its second call of keepTemp.
C4_Witness ==
    /\ pc = "kt_read"
    /\ nkeep = 2
    /\ ~unserved
    /\ end_of_power_period

\* C5: with actual_power P unchanged for a whole period and since, the
\* heater is high in the ticks 1..P after a wrap of the counter and low in
\* the ticks P+1..100: between two calls of the main loop to the gun it is
\* high exactly when cnt < P.
C5_BurstFire ==
    (held = 2 /\ pc \in {"ui", "sync", "ac"})
        => (hg.gun_pin <=> hg.cnt < hg.actual_power)

\* C6: from the return of switchPower(false) until the gun is switched on
\* or a fixed power is set, the heater is low.
C6_OffStaysOff == latched => ~hg.gun_pin

\* C7: when the check of the interrupts has failed and the main loop has
\* dealt with it, the gun is off, actual_power is 0, the heater is low and
\* the error screen is the current one.
C7_FaultForcesOff ==
    fault = "done" =>
        /\ ~hg.on
        /\ hg.actual_power = 0
        /\ ~hg.gun_pin
        /\ pCurrentScreen = "err"

(***************************************************************************)
(* The configuration store: claims C8, C9, C10 (under SpecStore).          *)
(***************************************************************************)
\* Slot n (0 .. Slots - 1) of the EEPROM decoded.
SlotRecord(n) == readRecord(ee, n * record_size)

\* C8: a save followed directly by a load makes load return true and leaves
\* in Config the very bytes that were saved, whatever saves, loads, restarts
\* and torn saves came before, also when the record went to the last slot or
\* to the write address past it.
C8_SaveLoadRoundTrip ==
    sop = "load after save" => is_valid /\ completed = <<hgCfg.Config>>

\* C8 happens: a record saved to the last slot of the region was loaded back.
C8_Witness ==
    /\ sop = "load after save"
    /\ is_valid
    /\ hgCfg.rAddr = eLength - record_size
    /\ completed = <<hgCfg.Config>>

\* C9 as claimed: after N > Slots saves in succession the valid slots hold
\* exactly the last Slots records, record i in slot (i - 1) mod Slots.
C9_LastRecordsRecoverable ==
    run > Slots =>
        \A i \in (run - Slots + 1)..run :
            /\ SlotRecord((i - 1) % Slots).ok
            /\ SlotRecord((i - 1) % Slots).recID = i

\* C10 as claimed: after a save was cut by a loss of power, the restart
\* loads the record of the last save that completed.
C10_TornSaveRecovers ==
    (sop = "init after power loss" /\ completed # <<>>)
        => is_valid /\ completed = <<hgCfg.Config>>

\* The slots of the region that decode, and those among them no other
\* exceeds (is below) in ID.
ValidSlots == {n \in 0..(Slots - 1) : SlotRecord(n).ok}

MaxSlots ==
    {n \in ValidSlots :
        \A m \in ValidSlots : SlotRecord(m).recID <= SlotRecord(n).recID}

MinSlots ==
    {n \in ValidSlots :
        \A m \in ValidSlots : SlotRecord(n).recID <= SlotRecord(m).recID}

\* C11 as claimed: after init, with no valid slot rAddr = wAddr = 0;
\* otherwise rAddr is the address of the valid record of greatest ID among
\* all slots, and wAddr is rAddr + record_size wrapped to 0 past the end
\* when some slot is not valid, the address of the record of least ID when
\* all are.
C11_InitExaminesEverySlot ==
    sop \in {"init", "init after power loss"} =>
        IF ValidSlots = {}
        THEN hgCfg.rAddr = 0 /\ hgCfg.wAddr = 0
        ELSE /\ \E n \in MaxSlots : hgCfg.rAddr = n * record_size
             /\ IF Cardinality(ValidSlots) < Slots
                THEN hgCfg.wAddr = (hgCfg.rAddr + record_size) % eLength
                ELSE \E n \in MinSlots : hgCfg.wAddr = n * record_size

\* C12 as claimed: a flip of one bit of the ID or of the payload of a slot
\* whose checksum was right leaves the slot with a checksum that is wrong.
C12_BitFlipDetected ==
    [][ \A n \in 0..(Slots - 1) :
            (/\ nflips' = nflips + 1
             /\ readRecord(ee, n * record_size).ok
             /\ ReadBuff(ee', n * record_size) # ReadBuff(ee, n * record_size))
                => ~readRecord(ee', n * record_size).ok ]_vars

(***************************************************************************)
(* HOTGUN_CFG: claims C13 (under SpecCfg).                                 *)
(***************************************************************************)
\* C13 as claimed: after HOTGUN_CFG::init and any calls of
\* applyCalibrationData, saveCalibrationData, setDefaults and save,
\* t_tip[0] < t_tip[1] < t_tip[2].
C13_TipsIncrease ==
    up => hgCfg.t_tip[1] < hgCfg.t_tip[2] /\ hgCfg.t_tip[2] < hgCfg.t_tip[3]

(***************************************************************************)
(* HOTGUN_CFG::init on decayed storage: claim C14 (under SpecDecay).       *)
(***************************************************************************)
\* The record CONFIG::load reads, and the calibration unpacked from it.
LoadedRecord == readRecord(ee, hgCfg.rAddr)

LoadedTip == UnpackTip(CfgCalibration30(LoadedRecord.Config))

LoadedUsable ==
    /\ LoadedRecord.ok
    /\ LoadedTip[1] < LoadedTip[2]
    /\ LoadedTip[2] < LoadedTip[3]

\* C14: after HOTGUN_CFG::init on any storage contents, the references, the
\* preset temperature and the fan speed are those of the loaded record when
\* it is valid and its calibration strictly increasing, and the defaults
\* (587/751/850, 600, 64) otherwise.
C14_InitRecoversLocally ==
    sop \in {"init", "init after power loss"} =>
        IF LoadedUsable
        THEN /\ hgCfg.t_tip = LoadedTip
             /\ CfgTemp(hgCfg.Config) = CfgTemp(LoadedRecord.Config)
             /\ CfgFan(hgCfg.Config) = CfgFan(LoadedRecord.Config)
        ELSE /\ hgCfg.t_tip = def_tip
             /\ UnpackTip(CfgCalibration30(hgCfg.Config)) = def_tip
             /\ CfgTemp(hgCfg.Config) = def_temp
             /\ CfgFan(hgCfg.Config) = def_fan

\* A restart that loaded a valid record whose calibration is out of order,
\* with a preset other than the default.
C14_Witness ==
    /\ sop = "init"
    /\ LoadedRecord.ok
    /\ ~LoadedUsable
    /\ CfgTemp(LoadedRecord.Config) # def_temp

\* A restart that loaded a usable record other than the defaults.
C14_WitnessLoaded ==
    /\ sop = "init"
    /\ LoadedUsable
    /\ hgCfg.t_tip # def_tip

\* A restart whose load failed on storage that is not erased.
C14_WitnessFailed ==
    /\ sop = "init"
    /\ ~LoadedRecord.ok
    /\ ee # Erased

(***************************************************************************)
(* Celsius to raw and back: claim C15 (under SpecConv).                    *)
(***************************************************************************)
TipsIncrease ==
    hgCfg.t_tip[1] < hgCfg.t_tip[2] /\ hgCfg.t_tip[2] < hgCfg.t_tip[3]

\* A value of the calibrated range was converted under the references now
\* installed.
Converted == conv.asked /\ conv.t \in CalibratedRange

RecoveredWithinOne == conv.tH - conv.t \in -1..1

\* Half the Celsius distance between two references: a calibration whose
\* references are at least this far apart has a raw unit of at most two
\* degrees.
MinSpan == (temp_tip[2] - temp_tip[1]) \div 2

Nearest(p, num, den) == 2 * (den * p - num) \in (-den)..den

\* C16: with the default coefficients the first reqPower(temp_set, temp_curr)
\* after resetPID returns (Kp + Ki) * (temp_set - temp_curr) / 2048 rounded to
\* the nearest integer, and reqPower(300, 250) returns the rounded
\* (638 + 196) * 50 / 2048, which is 20.
C16_BootstrapPower ==
    pidCall.n = 1 =>
        /\ Nearest(pidCall.pwr,
                   (Kp + Ki) * (pidCall.temp_set - pidCall.temp_curr),
                   Pow(2, denominator_p))
        /\ (pidCall.temp_set = 300 /\ pidCall.temp_curr = 250) =>
               /\ pidCall.pwr = 20
               /\ Nearest(pidCall.pwr, (638 + 196) * 50, 2048)

\* The first request after a reset was reqPower(300, 250).
C16_Witness ==
    /\ pidCall.n = 1
    /\ pidCall.temp_set = 300
    /\ pidCall.temp_curr = 250
    /\ hg.temp_h1 = 250

(***************************************************************************)
(* The PID inside HOTGUN: claim C17 (under SpecApi).                       *)
(***************************************************************************)
\* The two-sample memory, the iterating flag, the error integral and the
\* power accumulator.
PidState(h) == <<h.temp_h0, h.temp_h1, h.pid_iterate, h.i_summ, h.pid_power>>

PidCleared(h) == PidState(h) = PidState(resetPID(h, -1))

\* C17 as claimed: switchPower(true) on a gun that is off leaves the PID
\* state cleared, and the keepTemp that ends a thermal cutoff makes its
\* reqPower call on the cleared state.
C17_PidResetOnPowerOn ==
    [][ /\ (~hg.on /\ hg'.on) => PidCleared(hg')
        /\ (hg.on /\ hg.chill /\ ~hg'.chill) =>
               \E s \in Samples :
                   PidState(hg') =
                       PidState(reqPower(resetPID(hg, -1), hg.temp_set, s).obj)
      ]_vars

\* The part of C17 about the cutoff, which holds.
C17_PidResetOnRecovery ==
    [][ (hg.on /\ hg.chill /\ ~hg'.chill) =>
            \E s \in Samples :
                PidState(hg') =
                    PidState(reqPower(resetPID(hg, -1), hg.temp_set, s).obj)
      ]_vars

(***************************************************************************)
(* The fixed power: claim C18 (under SpecApi).                             *)
(***************************************************************************)
\* C18 as claimed: from fixPower(v), v > 0, to the next fixPower or
\* switchPower the applied power is min(v, period), through every keepTemp;
\* and a keepTemp call runs the PID only on a gun that is on, not chilling
\* and not at a fixed power.
C18_FixedPowerPinned ==
    /\ [](pinned > 0 => hg.actual_power = pinned)
    /\ [][ (nkeep' = nkeep + 1 /\ PidState(hg') # PidState(hg)) =>
               hg.on /\ ~hg'.chill /\ ~hg.fix_power ]_vars

\* The first half of C18 for a gun that is off, which holds.
C18_FixedPowerPinnedWhenOff ==
    (pinned > 0 /\ ~hg.on) => hg.actual_power = pinned

(***************************************************************************)
(* The fan at power-on: claim C19 (under SpecApi).                         *)
(***************************************************************************)
\* C19: every call switchPower(true), whatever the fan speed before it,
\* returns with the fan speed at least min_fan_speed, that speed given to
\* the fan as its duty, and the fan flag set.
C19_FanStartsAtPowerOn ==
    [][ ApiSwitchPower(TRUE) =>
            /\ hg'.fan_speed >= min_fan_speed
            /\ hg'.duty = hg'.fan_speed
            /\ hg'.fan ]_vars

\* The gun was switched on with a fan speed set below the minimum, which
\* only the clamp of switchPower turns into min_fan_speed.
C19_Witness ==
    /\ hg.on
    /\ hg.fan
    /\ hg.fan_speed = min_fan_speed
    /\ hg.duty = min_fan_speed
    /\ min_fan_speed \notin FanSpeeds

(***************************************************************************)
(* The check of the interrupts: claim C20 (under SpecAc).                  *)
(***************************************************************************)
\* C20 as claimed: once syncAC has seen an edge of the mains,
\* areExternalInterrupts() is true only if the most recent edge was seen
\* less than 10 * period ms ago, and the time it compares is the time since
\* that edge.
C20_ComparesLastEdge ==
    sinceEdge >= 0 =>
        /\ areExternalInterrupts(elapsed) => sinceEdge < period * 10
        /\ elapsed = sinceEdge

\* What holds: after the first edge, a true answer means an edge was seen
\* less than 10 * period ms ago.
C20_TrueOnlyIfRecentEdge ==
    (sinceEdge >= 0 /\ areExternalInterrupts(elapsed)) =>
        sinceEdge < period * 10

(***************************************************************************)
(* HISTORY: claims C21 and C22 (under SpecHist).                           *)
(***************************************************************************)
\* C21: after any puts into an empty HISTORY, average() is 0 when nothing
\* is stored, the item when one is, and otherwise the mean of the stored
\* items, the H_LENGTH most recent at most, rounded to the nearest integer.
C21_AverageIsRoundedMean ==
    IF recent = <<>> THEN average(hg.h_temp) = 0
    ELSE IF Len(recent) = 1 THEN average(hg.h_temp) = recent[1]
    ELSE Nearest(average(hg.h_temp), SumSeq(recent), Len(recent))

\* More items were put than the queue holds, the items kept differ, and
\* their mean is not an integer.
C21_Witness ==
    /\ hg.h_temp.index > 0
    /\ Len(recent) = H_LENGTH
    /\ \E i, j \in 1..H_LENGTH : recent[i] # recent[j]
    /\ SumSeq(recent) % H_LENGTH # 0

\* C22 as claimed: with 3 to H_LENGTH items put into an empty HISTORY,
\* dispersion() is the population variance of the items: the sum of the
\* squares of their distances from their mean, divided by their number.
\* With n items of sum S and sum of squares Q the variance is
\* (n * Q - S * S) / (n * n).
C22_DispersionIsVariance ==
    (Len(recent) >= 3 /\ hg.h_temp.index = 0) =>
        dispersion(hg.h_temp).num * Len(recent) * Len(recent) =
            dispersion(hg.h_temp).den
                * (Len(recent) * SumSquares(recent, 0)
                   - SumSeq(recent) * SumSeq(recent))

(***************************************************************************)
(* The cold gun: claim C23 (under SpecConv).                               *)
(***************************************************************************)
\* C23: under every calibration installed, isCold(raw) is true only of a raw
\* value below the first reference whose Celsius value on the line from
\* (ambient_temp, ambient_tempC) to (t_tip[0], temp_tip[0]) is below 50:
\* ambient_tempC + raw * (temp_tip[0] - ambient_tempC) / t_tip[0] < 50.
C23_ColdOnlyBelowFifty ==
    (conv.read /\ conv.cold) =>
        /\ conv.raw < hgCfg.t_tip[1]
        /\ (conv.raw - ambient_temp) * (temp_tip[1] - ambient_tempC)
               < (cold_tempC - ambient_tempC) * (hgCfg.t_tip[1] - ambient_temp)

\* A gun found cold at a reading above the ambient one, under a calibration
\* other than the default.
C23_Witness ==
    /\ conv.read
    /\ conv.cold
    /\ conv.raw > 1
    /\ hgCfg.t_tip # def_tip

\* A reading not found cold although below the first reference.
C23_WitnessWarm ==
    /\ conv.read
    /\ ~conv.cold
    /\ conv.raw < hgCfg.t_tip[1]

(***************************************************************************)
(* Heater, fan and cutoff in every mode: claims C24, C25 (under SpecApi).  *)
(***************************************************************************)
\* C24 as claimed: after every keepTemp, switchPower and fixPower call, in
\* every mode, a nonzero applied power comes with the fan flag set.
C24_NoPowerWithoutFan == hg.actual_power > 0 => hg.fan

\* C24 for a gun that regulates and was never given a fixed power, which
\* fails too: a fan stopped on a cold gun is not restarted by the keepTemp
\* that powers the heater again.
C24_NoPowerWithoutFanRegulating ==
    (hg.on /\ ~hg.fix_power /\ hg.actual_power > 0) => hg.fan

\* C25 as claimed: every call of keepTemp whose sample is above the
\* setpoint + 20 leaves actual_power 0, whether the gun regulates, chills,
\* is off or has a fixed power.
C25_CutoffInEveryMode ==
    [][ (nkeep' = nkeep + 1 /\ Sample > hg.temp_set + 20)
            => hg'.actual_power = 0 ]_vars

\* The part of C25 that holds: the same for a gun that is on or has no fixed
\* power.
C25_CutoffUnlessFixedAndOff ==
    [][ (/\ nkeep' = nkeep + 1
         /\ Sample > hg.temp_set + 20
         /\ hg.on \/ ~hg.fix_power)
            => hg'.actual_power = 0 ]_vars

(***************************************************************************)
(* The write address and the record IDs: claims C26, C30 (under            *)
(* SpecStore).                                                             *)
(***************************************************************************)
\* C26 as claimed: after CONFIG::init and after every save, wAddr is the
\* start of a slot of the EEPROM, 0 <= wAddr <= eLength - record_size, so
\* that no save writes a byte at an address outside the EEPROM.
C26_WriteAddressInRegion ==
    up => /\ hgCfg.wAddr % record_size = 0
          /\ hgCfg.wAddr >= 0
          /\ hgCfg.wAddr <= eLength - record_size

(***************************************************************************)
(* The modes of the PID: claim C27 (under SpecPid).                        *)
(***************************************************************************)
\* A step that is a call of reqPower.
ReqPowerStep == pidCall'.n = pidCall.n + 1

\* The correction of the iterating PID for the call of this step.
Correction ==
    Kp * (hg.temp_h1 - pidCall'.temp_curr)
        + Ki * (pidCall'.temp_set - pidCall'.temp_curr)
        + Kd * (hg.temp_h0 + pidCall'.temp_curr - 2 * hg.temp_h1)

\* C27 as claimed: the call of reqPower in which the error is first below 30
\* sets pid_iterate, and every call after it until the reset adds the
\* correction to the power and does nothing else to it.
C27_IteratesAfterFlip ==
    [][ ReqPowerStep =>
            /\ (~hg.pid_iterate
                /\ pidCall'.temp_set - pidCall'.temp_curr < 30)
                   => hg'.pid_iterate
            /\ hg.pid_iterate =>
                   /\ hg'.pid_iterate
                   /\ hg'.pid_power = hg.pid_power + Correction ]_vars

\* The part of C27 that holds: the same when the sample before the call
\* that set pid_iterate, and every sample since, was not 0.
C27_IteratesAfterFlipNonZero ==
    [][ ReqPowerStep =>
            /\ (~hg.pid_iterate
                /\ pidCall'.temp_set - pidCall'.temp_curr < 30)
                   => hg'.pid_iterate
            /\ (hg.pid_iterate /\ hg.temp_h0 # 0) =>
                   /\ hg'.pid_iterate
                   /\ hg'.pid_power = hg.pid_power + Correction ]_vars

(***************************************************************************)
(* The ranges of the power and of the counter: claim C28 (under SpecIrq).  *)
(***************************************************************************)
\* C28: in every reachable state, whatever edges of the mains and calls of
\* keepTemp, switchPower and fixPower came before, actual_power is in
\* 0..period and cnt in 0..(period - 1).
C28_PowerAndCounterInRange ==
    /\ hg.actual_power \in 0..period
    /\ hg.cnt \in 0..(period - 1)

\* The counter at its last tick before the wrap, with the PID asking for
\* more than the period and the full power applied.
C28_Witness ==
    /\ hg.cnt = period - 1
    /\ hg.on
    /\ hg.power > period
    /\ hg.actual_power = period

(***************************************************************************)
(* The fan in keepTemp: claim C29 (under SpecApi).                         *)
(***************************************************************************)
\* C29 as claimed: in every call of keepTemp, whatever the mode, a running
\* fan is stopped only if the applied power is 0 and the sample is at most
\* temp_gun_cold, and a stopped fan is started whenever the sample is above
\* temp_gun_cold.
C29_FanFollowsSample ==
    [][ nkeep' = nkeep + 1 =>
            /\ (hg.fan /\ ~hg'.fan) =>
                   (hg'.actual_power = 0 /\ Sample <= temp_gun_cold)
            /\ (~hg.fan /\ Sample > temp_gun_cold) => hg'.fan ]_vars

\* The part of C29 that holds: the same for every call that does not leave
\* keepTemp from its chilling branch.
C29_FanFollowsSampleUnlessChilling ==
    [][ (nkeep' = nkeep + 1 /\ ~(hg'.on /\ hg'.chill)) =>
            /\ (hg.fan /\ ~hg'.fan) =>
                   (hg'.actual_power = 0 /\ Sample <= temp_gun_cold)
            /\ (~hg.fan /\ Sample > temp_gun_cold) => hg'.fan ]_vars


\* ---------------------------------------------------------------------
\* Record identifiers: claim C30 (under SpecStore)
\* ---------------------------------------------------------------------

\* The record a completed save has just written: the one at the read
\* address the save leaves behind.
WrittenRecord(obj, e) == readRecord(e, obj.rAddr)

\* C30: record identifiers are monotonically increasing: the first save on
\* the empty store writes ID 1, and every later save, also after restarts
\* and after a slot has been found invalid, writes an ID strictly greater
\* than the ID of every record that was valid in the region before it.
C30_IdsIncrease ==
    [][sop' = "save" =>
         /\ WrittenRecord(hgCfg', ee').ok
         /\ (nsaves = 0 /\ ntorn = 0 /\ sop = "init") =>
                WrittenRecord(hgCfg', ee').recID = 1
         /\ \A n \in ValidSlots :
                SlotRecord(n).recID < WrittenRecord(hgCfg', ee').recID]_vars

\* C30, second half: after a save, the record saved last is the one with
\* the maximum ID among the valid records of the region.
C30_LastSavedIsMaximum ==
    sop = "save" =>
        \A n \in ValidSlots :
            SlotRecord(n).recID <= WrittenRecord(hgCfg, ee).recID

\* The same while no save has been torn: the records written by completed
\* saves alone keep increasing identifiers.
C30_IdsIncreaseWithoutTornSave ==
    (sop = "save" /\ ntorn = 0) =>
        \A n \in ValidSlots :
            SlotRecord(n).recID <= WrittenRecord(hgCfg, ee).recID


(***************************************************************************)
(* The gating by the power in force: claims C31, C32 (under SpecGate).     *)
(***************************************************************************)
\* C31: once actual_power has fallen to 0 (by keepTemp, fixPower(0) or
\* switchPower(false)) and two edges of the mains have been handled, the
\* heater is low, and it stays low for as long as actual_power remains 0.
C31_OffWithinTwoEdges ==
    (hg.actual_power = 0 /\ offEdges = 2) => ~hg.gun_pin

\* The cutoff of keepTemp has zeroed the power an earlier keepTemp gave the
\* running gun, and two edges have passed.
C31_Witness ==
    /\ hg.on /\ hg.chill
    /\ hg.actual_power = 0
    /\ hg.h_power.len > 0
    /\ offEdges = 2
    /\ ~hg.gun_pin
    /\ ~hg.active

\* The power is 0 and the heater still high after one edge: the wrap of the
\* counter does not switch it off.
C31_WitnessSecondEdgeNeeded ==
    /\ hg.actual_power = 0
    /\ offEdges = 1
    /\ hg.gun_pin

\* C32: the power keepTemp computes at a wrap of the counter gates the
\* heater for the first ticks of the period that begins at that wrap: while
\* it is in force and the main loop is outside keepTemp, the heater is high
\* exactly in the ticks below it.
C32_GatesComputedValue ==
    (fresh /\ pc \in {"ui", "sync", "ac"})
        => (hg.gun_pin <=> hg.cnt < hg.actual_power)


(***************************************************************************)
(* The calibration saved: claim C33 (under SpecCfg).                       *)
(***************************************************************************)
\* The references as HOTGUN_CFG::init would unpack them from the
\* calibration word of the configuration in memory.
PackedTip == UnpackTip(CfgCalibration30(hgCfg.Config))

\* C33: after saveCalibrationData(tip) the three references in memory are
\* the three values packed into the calibration field of the record, so
\* that init after a restart yields the references that were in memory.
C33_ReferencesArePacked ==
    sop = "saveCalibrationData" => hgCfg.t_tip = PackedTip

\* The same of the low and the high reference alone, which
\* saveCalibrationData does assign.
C33_LowAndHighArePacked ==
    sop = "saveCalibrationData" =>
        /\ hgCfg.t_tip[1] = PackedTip[1]
        /\ hgCfg.t_tip[3] = PackedTip[3]


(***************************************************************************)
(* Celsius to raw without overshoot: claim C34 (under SpecConv).           *)
(***************************************************************************)
\* C34: for every Celsius value t of the accepted range and every strictly
\* increasing calibration, the reading of the raw value tempInternal(t)
\* returns is not above t.
C34_NoOvershoot ==
    (conv.asked /\ conv.t \in AcceptedRange /\ TipsIncrease)
        => conv.tH <= conv.t

\* The same for the Celsius values from the low reference temperature up,
\* where tempInternal and tempHuman use the same segments.
C34_NoOvershootFromLowReference ==
    (conv.asked /\ conv.t >= temp_tip[1] /\ TipsIncrease)
        => conv.tH <= conv.t


(***************************************************************************)
(* The ring of the history: claims C35, C36 (under SpecHist).              *)
(***************************************************************************)
\* The items a HISTORY holds, the oldest first: the queue as it is until
\* it is full, then the queue read from index round to index - 1.
Stored(q) ==
    IF q.len < H_LENGTH THEN q.queue
    ELSE SubSeq(q.queue, q.index + 1, H_LENGTH) \o SubSeq(q.queue, 1, q.index)

\* C35: after any number of puts into the empty history the number of
\* items is the number of puts, H_LENGTH at most, and the items stored are
\* the most recent ones in their order: a put into the full history
\* overwrites the oldest.
C35_KeepsMostRecent ==
    /\ hg.h_temp.len = Len(recent)
    /\ hg.h_temp.len <= H_LENGTH
    /\ Len(hg.h_temp.queue) = hg.h_temp.len
    /\ Stored(hg.h_temp) = recent

\* The full history after five more puts, the item overwritten last being
\* other than the oldest now stored.
C35_Witness ==
    /\ hg.h_temp.len = H_LENGTH
    /\ hg.h_temp.index = 5
    /\ hg.h_temp.queue # recent
    /\ hg.h_temp.queue[5] = recent[H_LENGTH]
    /\ hg.h_temp.queue[6] = recent[1]
    /\ recent[1] # recent[H_LENGTH]

\* C36: last() returns the item of the most recent put, and 0 when nothing
\* has been put.
C36_LastIsMostRecent ==
    HistoryLast(hg.h_temp) =
        IF recent = <<>> THEN 0 ELSE recent[Len(recent)]

\* The history after a multiple of H_LENGTH puts: index is 0 and the item
\* put last, which differs from the one before it, is at the end of the
\* queue.
C36_Witness ==
    /\ hg.h_temp.len = H_LENGTH
    /\ hg.h_temp.index = 0
    /\ recent[H_LENGTH] # recent[H_LENGTH - 1]
    /\ HistoryLast(hg.h_temp) = recent[H_LENGTH]

\* The full history after one more put: last() reads the item before index.
C36_WitnessWrapped ==
    /\ hg.h_temp.len = H_LENGTH
    /\ hg.h_temp.index = 1
    /\ recent[H_LENGTH] # hg.h_temp.queue[H_LENGTH]
    /\ HistoryLast(hg.h_temp) = hg.h_temp.queue[1]


(***************************************************************************)
(* The fan speed of the running gun: claim C37 (under SpecApi).            *)
(***************************************************************************)
\* C37: every setFanSpeed call made while the gun is on gives the fan a
\* duty of min_fan_speed at least.
C37_FanSpeedKeptAboveMinimum ==
    [][ ((\E f \in FanSpeeds : ApiSetFanSpeed(f)) /\ hg.on)
            => hg'.duty >= min_fan_speed ]_vars

\* What setFanSpeed does give while the gun is on: the duty is the speed
\* asked for, whatever it is.
C37_FanSpeedAsAsked ==
    [][ ((\E f \in FanSpeeds : ApiSetFanSpeed(f)) /\ hg.on)
            => hg'.duty = hg'.fan_speed ]_vars


(***************************************************************************)
(* The preset saved: claim C38 (under SpecScreen).                         *)
(***************************************************************************)
\* C38: whenever a screen has saved the configuration (the return to the
\* main screen, the long press on the calibration screen), the preset of the
\* record written last is the setpoint of the gun, in raw units, clamped to
\* min_temp..max_temp.
C38_PresetSavedIsSetpoint ==
    [][ nsaves' > nsaves =>
            CfgTemp(WrittenRecord(hgCfg', ee').Config)
                = constrain(hg'.temp_set, min_temp, max_temp) ]_vars

\* The same of the return from the work screen to the main screen alone.
C38_PresetSavedOnReturn ==
    [][ (nsaves' > nsaves /\ pCurrentScreen = "work") =>
            CfgTemp(WrittenRecord(hgCfg', ee').Config)
                = constrain(hg'.temp_set, min_temp, max_temp) ]_vars


(***************************************************************************)
(* The read of the timestamp: claim C39 (under SpecRace).                  *)
(***************************************************************************)
\* C39: the main loop never observes a partially updated last_period: the
\* value areExternalInterrupts has read is one that last_period held at some
\* moment of the read.
C39_ReadsWholeTimestamp ==
    stamp.done => stamp.seen \in stamp.held

\* The consequence for the check of the interrupts: it fails only if some
\* value last_period held during the read is stale at the time of the
\* answer.
C39_FailsOnlyIfStale ==
    (stamp.done /\ ~stamp.result) =>
        \E v \in stamp.held : ~areExternalInterruptsAt(stamp.now, v)

\* What does hold: every byte read is a byte of a value last_period held
\* during the read.
C39_EveryByteWasWritten ==
    stamp.done =>
        \A i \in 0..3 :
            \E v \in stamp.held : ByteOf(stamp.seen, i) = ByteOf(v, i)


(***************************************************************************)
(* The order of the readings: claim C40 (under SpecConv).                  *)
(***************************************************************************)
\* The calibration installed is strictly increasing.
StrictlyIncreasing ==
    hgCfg.t_tip[1] < hgCfg.t_tip[2] /\ hgCfg.t_tip[2] < hgCfg.t_tip[3]

\* The raw readings of the 10-bit ADC but the last.
RawBelowTop == 0..1022

\* C40: tempHuman is monotone: under every strictly increasing calibration
\* a raw reading never shows a lower Celsius value than the reading one
\* below it, over the whole range 0..1023 of the readings.
C40_TempHumanMonotone ==
    (up /\ StrictlyIncreasing) =>
        \A a \in RawBelowTop :
            tempHuman(hgCfg, a) <= tempHuman(hgCfg, a + 1)

\* What does hold: the order is kept as long as the Celsius value of the
\* upper segment fits the 16 bits of the result.
C40_MonotoneWhileResultFits ==
    (up /\ StrictlyIncreasing) =>
        \A a \in RawBelowTop :
            map(a + 1, hgCfg.t_tip[2], hgCfg.t_tip[3], temp_tip[2],
                temp_tip[3]) < W16
                => tempHuman(hgCfg, a) <= tempHuman(hgCfg, a + 1)

\* The order is kept over the whole range where the upper span of the
\* calibration is more than one raw unit.
C40_MonotoneOverWideSpan ==
    (up /\ StrictlyIncreasing /\ hgCfg.t_tip[3] - hgCfg.t_tip[2] > 1) =>
        \A a \in RawBelowTop :
            tempHuman(hgCfg, a) <= tempHuman(hgCfg, a + 1)

====
